---------------------------- MODULE Spec2Model ----------------------------
(***************************************************************************)
(* literal-hell: interactive HTML-entity escaping of string literals and   *)
(* JSX text.  The repository holds two implementations of the review loop: *)
(*   "mono"    src/src/index.js            (processFile + main loop)       *)
(*   "modular" src/unnamed/part_001..004, src/src/lib (processFileFixes,   *)
(*             processFiles, lib/ui.js, lib/file.js)                       *)
(* Both are modelled; the variable impl says which one a behaviour runs.   *)
(*                                                                         *)
(* Text is modelled as sequences of one-character strings, a file as a     *)
(* sequence of lines.  The syntax-tree provider and the lint analyzer are  *)
(* black boxes: their output for each file of the corpus is given with the *)
(* file (nodes, lint) and is what they return for that text.               *)
(***************************************************************************)
EXTENDS Integers, Sequences, FiniteSets, TLC

(***************************************************************************)
(* JavaScript string primitives over sequences of characters.  Indexes are *)
(* 0-based as in the source.                                               *)
(***************************************************************************)
Min2(a, b) == IF a < b THEN a ELSE b
Max2(a, b) == IF a > b THEN a ELSE b

\* s.substring(a, b): clamps to [0, length]; (the source never passes a > b
\* except through clamping, where JS swaps the arguments).
substring(s, a, b) ==
    LET ca == Min2(Max2(a, 0), Len(s))
        cb == Min2(Max2(b, 0), Len(s))
        lo == Min2(ca, cb)
        hi == Max2(ca, cb)
    IN  SubSeq(s, lo + 1, hi)

\* s.substring(a)
substringFrom(s, a) == substring(s, a, Len(s))

\* s.substr(start, length) for start >= 0
substr(s, start, length) == substring(s, start, Min2(start + length, Len(s)))

matchAt(s, t, i) ==
    /\ i >= 0
    /\ i + Len(t) <= Len(s)
    /\ SubSeq(s, i + 1, i + Len(t)) = t

\* s.indexOf(t, from)
indexOf(s, t, from) ==
    LET hits == {i \in Max2(from, 0)..(Len(s) - Len(t)) : matchAt(s, t, i)}
    IN  IF hits = {} THEN -1 ELSE CHOOSE i \in hits : \A j \in hits : i <= j

\* s.lastIndexOf(t, pos)
lastIndexOf(s, t, pos) ==
    LET hits == {i \in 0..Min2(pos, Len(s) - Len(t)) : matchAt(s, t, i)}
    IN  IF hits = {} THEN -1 ELSE CHOOSE i \in hits : \A j \in hits : i >= j

includes(s, t) == indexOf(s, t, 0) >= 0
startsWith(s, t) == matchAt(s, t, 0)
endsWith(s, t) == matchAt(s, t, Len(s) - Len(t))

\* the characters String.prototype.trim removes (those the corpus uses)
IsSpace(c) == c \in {" ", "\n"}

RECURSIVE trimStart(_)
trimStart(s) ==
    IF s # <<>> /\ IsSpace(Head(s)) THEN trimStart(Tail(s)) ELSE s

RECURSIVE trimEnd(_)
trimEnd(s) ==
    IF s # <<>> /\ IsSpace(s[Len(s)]) THEN trimEnd(SubSeq(s, 1, Len(s) - 1)) ELSE s

trim(s) == trimEnd(trimStart(s))

\* s.split('\n')
RECURSIVE split(_)
split(s) ==
    LET i == indexOf(s, <<"\n">>, 0)
    IN  IF i < 0 THEN <<s>>
        ELSE <<substring(s, 0, i)>> \o split(substringFrom(s, i + 1))

\* lines.join('\n')
RECURSIVE join(_)
join(ls) ==
    IF ls = <<>> THEN <<>>
    ELSE IF Len(ls) = 1 THEN ls[1]
    ELSE ls[1] \o <<"\n">> \o join(Tail(ls))

\* (s.match(/t/g) || []).length for a literal t
RECURSIVE countOf(_, _)
countOf(s, t) ==
    LET i == indexOf(s, t, 0)
    IN  IF i < 0 THEN 0 ELSE 1 + countOf(substringFrom(s, i + Len(t)), t)

\* s.replace(/t/g, r) for a literal t
RECURSIVE replaceAll(_, _, _)
replaceAll(s, t, r) ==
    LET i == indexOf(s, t, 0)
    IN  IF i < 0 THEN s
        ELSE substring(s, 0, i) \o r \o replaceAll(substringFrom(s, i + Len(t)), t, r)

Chars(s) == {s[i] : i \in 1..Len(s)}

Digit == <<"0", "1", "2", "3", "4", "5", "6", "7", "8", "9">>

\* `${n}` for a natural number n
RECURSIVE numStr(_)
numStr(n) ==
    IF n < 10 THEN <<Digit[n + 1]>> ELSE numStr(n \div 10) \o <<Digit[(n % 10) + 1]>>

(***************************************************************************)
(* The escape policy (index.js and lib/escape.js agree on these).          *)
(***************************************************************************)
ESCAPES(c) ==
    CASE c = "\"" -> <<"&", "q", "u", "o", "t", ";">>
      [] c = "'"  -> <<"&", "a", "p", "o", "s", ";">>
      [] c = "&"  -> <<"&", "a", "m", "p", ";">>
      [] c = "<"  -> <<"&", "l", "t", ";">>
      [] c = ">"  -> <<"&", "g", "t", ";">>
      [] OTHER    -> <<c>>

APOS == ESCAPES("'")
QUOT == ESCAPES("\"")
AMP  == ESCAPES("&")
LT   == ESCAPES("<")
GT   == ESCAPES(">")

\* str.replace without the g flag: only the first match is replaced
RECURSIVE escapeCharsFirstOnly(_, _)
escapeCharsFirstOnly(s, set) ==
    IF s = <<>> THEN <<>>
    ELSE IF Head(s) \in set THEN ESCAPES(Head(s)) \o Tail(s)
    ELSE <<Head(s)>> \o escapeCharsFirstOnly(Tail(s), set)

\* str.replace(/[set]/g, c => ESCAPES[c])
RECURSIVE escapeChars(_, _)
escapeChars(s, set) ==
    IF s = <<>> THEN <<>>
    ELSE (IF Head(s) \in set THEN ESCAPES(Head(s)) ELSE <<Head(s)>>)
         \o escapeChars(Tail(s), set)

IsDigit(c) == c \in {Digit[i] : i \in 1..10}

\* /&#(\d+);/ matches somewhere in s: "&#" at i, digits at i+2..j-1, ";" at j
hasNumericEntity(s) ==
    \E i \in 0..(Len(s) - 4) :
        /\ matchAt(s, <<"&", "#">>, i)
        /\ \E j \in (i + 3)..(Len(s) - 1) :
              /\ s[j + 1] = ";"
              /\ \A k \in (i + 2)..(j - 1) : IsDigit(s[k + 1])

\* a check that finds no entity in any text
containsHtmlEntitiesNever(s) == FALSE

containsHtmlEntities(s) ==
    \/ includes(s, QUOT) \/ includes(s, APOS) \/ includes(s, AMP)
    \/ includes(s, LT) \/ includes(s, GT)
    \/ includes(s, AMP \o Tail(QUOT)) \/ includes(s, AMP \o Tail(APOS))
    \/ includes(s, AMP \o Tail(LT)) \/ includes(s, AMP \o Tail(GT))
    \/ hasNumericEntity(s)

shouldExcludeFromEscaping(str, strict) ==
    IF strict THEN FALSE
    ELSE \/ includes(str, <<"?">>) /\ includes(str, <<"&">>) /\ ~includes(str, <<" ">>)
         \/ startsWith(str, <<"&">>) /\ includes(str, <<"=">>) /\ ~includes(str, <<" ">>)
         \/ startsWith(str, <<"&">>) /\ includes(str, <<":">>)
         \/ str = <<"&">> \/ str = <<">", ">">> \/ str = <<"&", "&">>

\* the characters the replace callback is called with, in order:
\* charactersToEscape after str.replace(/[set]/g, c => { push(c); ... })
RECURSIVE matches(_, _)
matches(s, set) ==
    IF s = <<>> THEN <<>>
    ELSE (IF Head(s) \in set THEN <<Head(s)>> ELSE <<>>) \o matches(Tail(s), set)

\* the list as pushed, duplicates kept
uniqKeepsAll(list) == list

\* [...new Set(list)]: the distinct elements in order of first occurrence
RECURSIVE uniq(_)
uniq(list) ==
    IF list = <<>> THEN <<>>
    ELSE LET front == uniq(SubSeq(list, 1, Len(list) - 1))
             last == list[Len(list)]
         IN  IF \E i \in 1..Len(front) : front[i] = last THEN front
             ELSE Append(front, last)

\* escapeString without the branch for texts with angle brackets
escapeStringNoMarkupBranch(str, strict) ==
    IF shouldExcludeFromEscaping(str, strict) \/ containsHtmlEntities(str)
    THEN [kind |-> "same", result |-> str, escapedChars |-> <<>>]
    ELSE [kind |-> "obj",
          result |-> escapeChars(str, {"\"", "'", "&", "<", ">"}),
          escapedChars |-> uniq(matches(str, {"\"", "'", "&", "<", ">"}))]

\* escapeString without the double-escape prevention
escapeStringNoEntityCheck(str, strict) ==
    IF shouldExcludeFromEscaping(str, strict)
    THEN [kind |-> "same", result |-> str, escapedChars |-> <<>>]
    ELSE IF includes(str, <<"<">>) \/ includes(str, <<">">>)
    THEN [kind |-> "obj",
          result |-> escapeChars(str, {"\"", "'"}),
          escapedChars |-> uniq(matches(str, {"\"", "'"}))]
    ELSE [kind |-> "obj",
          result |-> escapeChars(str, {"\"", "'", "&", "<", ">"}),
          escapedChars |-> uniq(matches(str, {"\"", "'", "&", "<", ">"}))]

\* escapeString returns either its argument (kind "same") or an object
\* {result, escapedChars} (kind "obj").
escapeString(str, strict) ==
    IF shouldExcludeFromEscaping(str, strict) \/ containsHtmlEntities(str)
    THEN [kind |-> "same", result |-> str, escapedChars |-> <<>>]
    ELSE IF includes(str, <<"<">>) \/ includes(str, <<">">>)
    THEN [kind |-> "obj",
          result |-> escapeChars(str, {"\"", "'"}),
          escapedChars |-> uniq(matches(str, {"\"", "'"}))]
    ELSE [kind |-> "obj",
          result |-> escapeChars(str, {"\"", "'", "&", "<", ">"}),
          escapedChars |-> uniq(matches(str, {"\"", "'", "&", "<", ">"}))]

createFixKey(filePath, line, column, original) ==
    filePath \o <<":">> \o numStr(line) \o <<":">> \o numStr(column) \o <<":">> \o original

(***************************************************************************)
(* Candidate filters of index.js (the scan of processFile).                *)
(***************************************************************************)
\* /<[^>]*'[^>]*>/ matches somewhere in s
tagPattern(s) ==
    \E i \in 1..Len(s) : \E j \in (i + 1)..Len(s) : \E k \in (j + 1)..Len(s) :
        /\ s[i] = "<" /\ s[j] = "'" /\ s[k] = ">"
        /\ \A m \in (i + 1)..(k - 1) : s[m] # ">"

isSafeToEscapeInJsx(original, line) ==
    IF includes(original, <<"<">>) /\ includes(original, <<">">>) THEN FALSE
    ELSE IF tagPattern(original) \/ tagPattern(line) THEN FALSE
    ELSE TRUE

\* lines.slice(a, b)
slice(ls, a, b) == substring(ls, a, b)

Upper == <<"A", "B", "C", "D", "E", "F", "G", "H", "I", "J", "K", "L", "M",
           "N", "O", "P", "Q", "R", "S", "T", "U", "V", "W", "X", "Y", "Z">>
Lower == <<"a", "b", "c", "d", "e", "f", "g", "h", "i", "j", "k", "l", "m",
           "n", "o", "p", "q", "r", "s", "t", "u", "v", "w", "x", "y", "z">>
IsLetter(c) == \E i \in 1..26 : c = Upper[i] \/ c = Lower[i]

toLowerCase(s) ==
    [i \in 1..Len(s) |->
        IF \E k \in 1..26 : s[i] = Upper[k]
        THEN Lower[CHOOSE k \in 1..26 : s[i] = Upper[k]]
        ELSE s[i]]

\* isAlreadyEscapedInLineWindow(filePath, lineNumber, originalString) of
\* index.js, on the lines of the file as they are on disk.  The result is
\* "none" (false or {matched: false}), "high" or "medium".
isAlreadyEscapedInLineWindow(lines, lineNumber, originalString) ==
    IF ~includes(originalString, <<"'">>) /\ ~includes(originalString, <<"\"">>)
    THEN "none"
    ELSE
    LET escapedString == replaceAll(replaceAll(originalString, <<"'">>, APOS), <<"\"">>, QUOT)
        windowStart == Max2(0, lineNumber - 10 - 1)
        windowEnd == Min2(Len(lines) - 1, lineNumber + 10 - 1)
        windowText == join(slice(lines, windowStart, windowEnd + 1))
        apostropheCount == countOf(originalString, <<"'">>)
        aposCount == countOf(windowText, APOS)
        strippedOriginal == toLowerCase(replaceAll(originalString, <<"'">>, <<>>))
        strippedWindow == toLowerCase(replaceAll(windowText, APOS, <<>>))
        apostropheIndices == {i \in 0..(Len(originalString) - 1) : originalString[i + 1] = "'"}
        contextPattern(idx) ==
            substring(originalString, Max2(0, idx - 10), idx) \o APOS
            \o substring(originalString, idx + 1, Min2(Len(originalString), idx + 11))
    IN  IF \E i \in windowStart..windowEnd : includes(lines[i + 1], escapedString)
        THEN "high"
        ELSE IF /\ includes(originalString, <<"'">>)
                /\ includes(originalString, <<"\n">>)
                /\ aposCount >= apostropheCount
                /\ includes(strippedWindow, substring(strippedOriginal, 0, 20))
                /\ includes(strippedWindow,
                            substringFrom(strippedOriginal,
                                          Max2(0, Len(strippedOriginal) - 20)))
        THEN "medium"
        ELSE IF /\ includes(originalString, <<"'">>)
                /\ \A idx \in apostropheIndices : includes(windowText, contextPattern(idx))
        THEN "medium"
        ELSE "none"

\* checkRawFileContent(filePath, line, column, original) of index.js
checkRawFileContent(lines, line, original) ==
    IF line <= 0 \/ line > Len(lines) THEN FALSE
    ELSE
    LET lineContent == lines[line]
        escapedVersion ==
            replaceAll(replaceAll(replaceAll(replaceAll(original,
                <<"'">>, APOS), <<"\"">>, QUOT), <<"<">>, LT), <<">">>, GT)
        surroundingLines ==
            join(slice(lines, Max2(0, line - 2), Min2(Len(lines), line + 2)))
    IN  IF \/ includes(lineContent, APOS) \/ includes(lineContent, QUOT)
           \/ includes(lineContent, LT) \/ includes(lineContent, GT)
        THEN IF original # <<>>
             THEN includes(lineContent, escapedVersion)
                  \/ includes(surroundingLines, escapedVersion)
             ELSE TRUE
        ELSE FALSE

\* isAlreadyFixed(fileContent, line, column, original, escaped) of index.js
isAlreadyFixed(lines, line, column, original, escaped) ==
    IF includes(original, <<"\n">>)
    THEN LET n == Len(split(original))
         IN  \/ \E i \in 0..(n - 1) :
                   /\ line + i >= 1 /\ line + i <= Len(lines)
                   /\ lines[line + i] # <<>>
                   /\ containsHtmlEntities(trim(lines[line + i]))
             \/ containsHtmlEntities(join(slice(lines, line - 1, line - 1 + n)))
    ELSE IF line < 1 \/ line > Len(lines) THEN FALSE
    ELSE LET fileLine == lines[line]
         IN  \/ fileLine # <<>> /\ includes(fileLine, escaped)
             \/ fileLine # <<>>
                /\ containsHtmlEntities(substr(fileLine, Max2(0, column - 20), 100))

\* isAutoSkipPattern without the check for query parameters
isAutoSkipPatternNoQueryCheck(str, filePath, line, strict) ==
    LET pathLines == split(filePath)
        lineContext == IF line >= 1 /\ line <= Len(pathLines) THEN pathLines[line] ELSE <<>>
        has(s, w) == includes(s, w)
    IN
    IF strict THEN ""
    ELSE IF startsWith(str, <<"&">>)
            /\ (has(str, <<" ">>) \/ has(str, <<"[">>) \/ has(str, <<":">>))
    THEN "CSS selector pattern"
    ELSE IF \/ endsWith(filePath, <<".", "c", "s", "s">>)
            \/ endsWith(filePath, <<".", "s", "c", "s", "s">>)
            \/ endsWith(filePath, <<".", "l", "e", "s", "s">>)
            \/ endsWith(filePath, <<".", "s", "t", "y", "l">>)
    THEN "CSS file content"
    ELSE IF /\ (startsWith(str, <<"&">>) \/ has(str, <<" ", "&">>))
            /\ \/ has(filePath, <<"s", "t", "y", "l", "e">>)
               \/ has(filePath, <<"S", "t", "y", "l", "e">>)
               \/ has(filePath, <<".", "c", "s", "s">>)
               \/ has(filePath, <<".", "s", "c", "s", "s">>)
    THEN "Likely CSS-in-JS pattern"
    ELSE IF /\ \/ has(str, <<"s", "y", "s", "t", "e", "m">>)
               \/ has(str, <<"s", "e", "r", "i", "f">>)
               \/ has(str, <<"s", "a", "n", "s", "-", "s", "e", "r", "i", "f">>)
               \/ has(str, <<"m", "o", "n", "o", "s", "p", "a", "c", "e">>)
               \/ has(str, <<"R", "o", "b", "o", "t", "o">>)
               \/ has(str, <<"A", "r", "i", "a", "l">>)
               \/ has(str, <<"H", "e", "l", "v", "e", "t", "i", "c", "a">>)
               \/ has(str, <<"f", "o", "n", "t">>)
               \/ has(str, <<"F", "o", "n", "t">>)
            /\ \/ has(str, <<",">>)
               \/ (str # <<>> /\ \A i \in 1..Len(str) : IsLetter(str[i]) \/ str[i] = "-")
    THEN "Font family declaration"
    ELSE IF \/ startsWith(str, <<"&", ".">>) \/ startsWith(str, <<"&", "#">>)
            \/ startsWith(str, <<"&", "[">>)
            \/ startsWith(str, <<"&", ":">>)
            \/ startsWith(str, <<"&", ">">>)
            \/ has(str, <<" ", "&", " ">>)
    THEN "CSS selector pattern (enhanced detection)"
    ELSE IF /\ \/ has(lineContext, <<"s", "t", "y", "l", "e">>)
               \/ has(lineContext, <<"S", "t", "y", "l", "e">>)
               \/ has(lineContext, <<"c", "l", "a", "s", "s", "N", "a", "m", "e">>)
               \/ has(lineContext, <<"c", "s", "s">>)
            /\ (has(lineContext, <<":">>) \/ has(lineContext, <<"=">>))
            /\ (has(str, <<"-">>) \/ has(str, <<" ">>) \/ has(str, <<",">>))
    THEN "CSS property value"
    ELSE ""

\* isAutoSkipPattern(str, filePath, line, column) of index.js: the reason,
\* or "" for false.  The last check reads line `line` of filePath.split('\n').
isAutoSkipPattern(str, filePath, line, strict) ==
    LET pathLines == split(filePath)
        lineContext == IF line >= 1 /\ line <= Len(pathLines) THEN pathLines[line] ELSE <<>>
        has(s, w) == includes(s, w)
    IN
    IF strict THEN ""
    ELSE IF startsWith(str, <<"&">>)
            /\ (has(str, <<" ">>) \/ has(str, <<"[">>) \/ has(str, <<":">>))
    THEN "CSS selector pattern"
    ELSE IF \/ endsWith(filePath, <<".", "c", "s", "s">>)
            \/ endsWith(filePath, <<".", "s", "c", "s", "s">>)
            \/ endsWith(filePath, <<".", "l", "e", "s", "s">>)
            \/ endsWith(filePath, <<".", "s", "t", "y", "l">>)
    THEN "CSS file content"
    ELSE IF /\ (startsWith(str, <<"&">>) \/ has(str, <<" ", "&">>))
            /\ \/ has(filePath, <<"s", "t", "y", "l", "e">>)
               \/ has(filePath, <<"S", "t", "y", "l", "e">>)
               \/ has(filePath, <<".", "c", "s", "s">>)
               \/ has(filePath, <<".", "s", "c", "s", "s">>)
    THEN "Likely CSS-in-JS pattern"
    ELSE IF /\ \/ has(str, <<"s", "y", "s", "t", "e", "m">>)
               \/ has(str, <<"s", "e", "r", "i", "f">>)
               \/ has(str, <<"s", "a", "n", "s", "-", "s", "e", "r", "i", "f">>)
               \/ has(str, <<"m", "o", "n", "o", "s", "p", "a", "c", "e">>)
               \/ has(str, <<"R", "o", "b", "o", "t", "o">>)
               \/ has(str, <<"A", "r", "i", "a", "l">>)
               \/ has(str, <<"H", "e", "l", "v", "e", "t", "i", "c", "a">>)
               \/ has(str, <<"f", "o", "n", "t">>)
               \/ has(str, <<"F", "o", "n", "t">>)
            /\ \/ has(str, <<",">>)
               \/ (str # <<>> /\ \A i \in 1..Len(str) : IsLetter(str[i]) \/ str[i] = "-")
    THEN "Font family declaration"
    ELSE IF /\ has(str, <<"&">>)
            /\ \/ has(str, <<"q", "u", "e", "r", "y">>)
               \/ has(str, <<"f", "i", "l", "t", "e", "r">>)
               \/ has(str, <<"p", "a", "r", "a", "m">>)
    THEN "Query parameter pattern"
    ELSE IF \/ startsWith(str, <<"&", ".">>) \/ startsWith(str, <<"&", "#">>)
            \/ startsWith(str, <<"&", "[">>)
            \/ startsWith(str, <<"&", ":">>)
            \/ startsWith(str, <<"&", ">">>)
            \/ has(str, <<" ", "&", " ">>)
    THEN "CSS selector pattern (enhanced detection)"
    ELSE IF /\ \/ has(lineContext, <<"s", "t", "y", "l", "e">>)
               \/ has(lineContext, <<"S", "t", "y", "l", "e">>)
               \/ has(lineContext, <<"c", "l", "a", "s", "s", "N", "a", "m", "e">>)
               \/ has(lineContext, <<"c", "s", "s">>)
            /\ (has(lineContext, <<":">>) \/ has(lineContext, <<"=">>))
            /\ (has(str, <<"-">>) \/ has(str, <<" ">>) \/ has(str, <<",">>))
    THEN "CSS property value"
    ELSE ""

hasManagedChar(s) ==
    \/ includes(s, <<"'">>) \/ includes(s, <<"\"">>) \/ includes(s, <<"<">>)
    \/ includes(s, <<">">>) \/ includes(s, <<"&">>)

(***************************************************************************)
(* The source trees the model runs on.  A file gives its path, its lines,  *)
(* what the syntax-tree provider returns for it (nodes: the StringLiteral  *)
(* and JSXText nodes in traversal order, value as the parser reports it,   *)
(* loc.start/loc.end, and whether the node is an attribute value), what    *)
(* the lint analyzer reports for it (lint: react/no-unescaped-entities     *)
(* findings, column 1-based), its size in bytes, whether the parser throws *)
(* on it, and whether it is gone by the time it is opened.                 *)
(***************************************************************************)
Corpus ==
    <<
    \* a.js
      [path |-> <<"a", ".", "j", "s">>,
       lines |-> <<<<"f", "(", "'", "a", "\"", "b", "'", ",", "\"", "c", "'", "d", "\"", ")">>,
                 <<"g", "(", "\"", "x", "&", "y", "\"", ")">>>>,
       nodes |-> <<[type |-> "StringLiteral", value |-> <<"a", "\"", "b">>, line |-> 1, column |-> 2, endLine |-> 1, endColumn |-> 7, prop |-> FALSE],
                 [type |-> "StringLiteral", value |-> <<"c", "'", "d">>, line |-> 1, column |-> 8, endLine |-> 1, endColumn |-> 13, prop |-> FALSE],
                 [type |-> "StringLiteral", value |-> <<"x", "&", "y">>, line |-> 2, column |-> 2, endLine |-> 2, endColumn |-> 7, prop |-> FALSE]>>,
       lint |-> <<>>,
       size |-> 23, parseFails |-> FALSE, missing |-> FALSE],
    \* b.js
      [path |-> <<"b", ".", "j", "s">>,
       lines |-> <<<<"/", "/", "&", "a", "m", "p", ";", "l", "t", ";">>,
                 <<"h", "(", "\"", "a", " ", "&", " ", "b", "\"", ",", "'", "u", "\"", "v", "'", ")">>>>,
       nodes |-> <<[type |-> "StringLiteral", value |-> <<"a", " ", "&", " ", "b">>, line |-> 2, column |-> 2, endLine |-> 2, endColumn |-> 9, prop |-> FALSE],
                 [type |-> "StringLiteral", value |-> <<"u", "\"", "v">>, line |-> 2, column |-> 10, endLine |-> 2, endColumn |-> 15, prop |-> FALSE]>>,
       lint |-> <<>>,
       size |-> 27, parseFails |-> FALSE, missing |-> FALSE],
    \* c.jsx
      [path |-> <<"c", ".", "j", "s", "x">>,
       lines |-> <<<<"<", "p", ">">>,
                 <<"i", "t", "&", "a", "p", "o", "s", ";", "s">>,
                 <<"o", "k", "<", "/", "p", ">">>,
                 <<"<", "b", ">">>,
                 <<"d", "o", "n", "'", "t">>,
                 <<"<", "/", "b", ">">>>>,
       nodes |-> <<[type |-> "JSXText", value |-> <<"\n", "i", "t", "'", "s", "\n", "o", "k">>, line |-> 1, column |-> 3, endLine |-> 3, endColumn |-> 2, prop |-> FALSE],
                 [type |-> "JSXText", value |-> <<"\n">>, line |-> 3, column |-> 6, endLine |-> 4, endColumn |-> 0, prop |-> FALSE],
                 [type |-> "JSXText", value |-> <<"\n", "d", "o", "n", "'", "t", "\n">>, line |-> 4, column |-> 3, endLine |-> 6, endColumn |-> 0, prop |-> FALSE]>>,
       lint |-> <<[line |-> 5, column |-> 4, entity |-> <<"'">>]>>,
       size |-> 35, parseFails |-> FALSE, missing |-> FALSE],
    \* d.jsx
      [path |-> <<"d", ".", "j", "s", "x">>,
       lines |-> <<<<"<", "i", ">">>,
                 <<"{", "a", "}", " ", "i", "s", "n", "'", "t", " ", "{", "b", "}">>,
                 <<"<", "/", "i", ">">>,
                 <<"<", "u", ">", "c", "a", "n", "'", "t", "<", "/", "u", ">">>,
                 <<"z", "(", "\"", "p", "'", "q", "\"", ")">>>>,
       nodes |-> <<[type |-> "JSXText", value |-> <<"\n">>, line |-> 1, column |-> 3, endLine |-> 2, endColumn |-> 0, prop |-> FALSE],
                 [type |-> "JSXText", value |-> <<" ", "i", "s", "n", "'", "t", " ">>, line |-> 2, column |-> 3, endLine |-> 2, endColumn |-> 10, prop |-> FALSE],
                 [type |-> "JSXText", value |-> <<"\n">>, line |-> 2, column |-> 13, endLine |-> 3, endColumn |-> 0, prop |-> FALSE],
                 [type |-> "JSXText", value |-> <<"\n">>, line |-> 3, column |-> 4, endLine |-> 4, endColumn |-> 0, prop |-> FALSE],
                 [type |-> "JSXText", value |-> <<"c", "a", "n", "'", "t">>, line |-> 4, column |-> 3, endLine |-> 4, endColumn |-> 8, prop |-> FALSE],
                 [type |-> "JSXText", value |-> <<"\n">>, line |-> 4, column |-> 12, endLine |-> 5, endColumn |-> 0, prop |-> FALSE],
                 [type |-> "StringLiteral", value |-> <<"p", "'", "q">>, line |-> 5, column |-> 2, endLine |-> 5, endColumn |-> 7, prop |-> FALSE]>>,
       lint |-> <<[line |-> 2, column |-> 8, entity |-> <<"'">>],
                [line |-> 4, column |-> 7, entity |-> <<"'">>]>>,
       size |-> 44, parseFails |-> FALSE, missing |-> FALSE],
    \* big.jsx
      [path |-> <<"b", "i", "g", ".", "j", "s", "x">>,
       lines |-> <<<<"<", "p", ">">>,
                 <<"d", "o", "n", "'", "t">>,
                 <<"<", "/", "p", ">">>>>,
       nodes |-> <<[type |-> "JSXText", value |-> <<"\n", "d", "o", "n", "'", "t", "\n">>, line |-> 1, column |-> 3, endLine |-> 3, endColumn |-> 0, prop |-> FALSE]>>,
       lint |-> <<[line |-> 2, column |-> 4, entity |-> <<"'">>]>>,
       size |-> 1048577, parseFails |-> FALSE, missing |-> FALSE],
    \* bad.js
      [path |-> <<"b", "a", "d", ".", "j", "s">>,
       lines |-> <<<<"f", "(">>>>,
       nodes |-> <<>>,
       lint |-> <<>>,
       size |-> 2, parseFails |-> TRUE, missing |-> FALSE],
    \* e.jsx
      [path |-> <<"e", ".", "j", "s", "x">>,
       lines |-> <<<<"<", "p", ">">>,
                 <<"{", "'", "x", "'", "}", " ", "d", "o", "n", "'", "t">>,
                 <<"<", "/", "p", ">">>>>,
       nodes |-> <<[type |-> "JSXText", value |-> <<"\n">>, line |-> 1, column |-> 3, endLine |-> 2, endColumn |-> 0, prop |-> FALSE],
                 [type |-> "StringLiteral", value |-> <<"x">>, line |-> 2, column |-> 1, endLine |-> 2, endColumn |-> 4, prop |-> FALSE],
                 [type |-> "JSXText", value |-> <<" ", "d", "o", "n", "'", "t", "\n">>, line |-> 2, column |-> 5, endLine |-> 3, endColumn |-> 0, prop |-> FALSE]>>,
       lint |-> <<[line |-> 2, column |-> 10, entity |-> <<"'">>]>>,
       size |-> 20, parseFails |-> FALSE, missing |-> FALSE],
    \* gone.js
      [path |-> <<"g", "o", "n", "e", ".", "j", "s">>,
       lines |-> <<<<"g", "(", ")">>>>,
       nodes |-> <<>>,
       lint |-> <<>>,
       size |-> 3, parseFails |-> FALSE, missing |-> TRUE],
    \* s.js: a literal, a literal with an escaped quote, and a literal
    \* continued on the next line
      [path |-> <<"s", ".", "j", "s">>,
       lines |-> <<<<"n", "(", "\"", "o", "'", "k", "\"", ")">>,
                 <<"k", "(", "'", "i", "t", "\\", "'", "s", "'", ")">>,
                 <<"m", "(", "\"", "a", "'", "b", "\\">>,
                 <<"c", "\"", ")">>>>,
       nodes |-> <<[type |-> "StringLiteral", value |-> <<"o", "'", "k">>, line |-> 1, column |-> 2, endLine |-> 1, endColumn |-> 7, prop |-> FALSE],
                 [type |-> "StringLiteral", value |-> <<"i", "t", "'", "s">>, line |-> 2, column |-> 2, endLine |-> 2, endColumn |-> 9, prop |-> FALSE],
                 [type |-> "StringLiteral", value |-> <<"a", "'", "b", "c">>, line |-> 3, column |-> 2, endLine |-> 4, endColumn |-> 2, prop |-> FALSE]>>,
       lint |-> <<>>,
       size |-> 31, parseFails |-> FALSE, missing |-> FALSE],
    \* w.jsx: a comment that holds escaped forms, the same literal ten and
    \* eleven lines below it, and a literal that is the value of an attribute
      [path |-> <<"w", ".", "j", "s", "x">>,
       lines |-> <<<<"/", "/", "i", "t", "&", "a", "p", "o", "s", ";", "s", " ", "x", "&", "a", "m", "p", ";", "y">>,
                 <<"/", "/">>,
                 <<"/", "/">>,
                 <<"/", "/">>,
                 <<"/", "/">>,
                 <<"/", "/">>,
                 <<"/", "/">>,
                 <<"/", "/">>,
                 <<"/", "/">>,
                 <<"/", "/">>,
                 <<"t", "(", "\"", "i", "t", "'", "s", "\"", ",", "\"", "x", "&", "y", "\"", ")">>,
                 <<"u", "(", "\"", "i", "t", "'", "s", "\"", ")">>,
                 <<"<", "a", " ", "b", "=", "\"", "p", "&", "q", "\"", "/", ">">>>>,
       nodes |-> <<[type |-> "StringLiteral", value |-> <<"i", "t", "'", "s">>, line |-> 11, column |-> 2, endLine |-> 11, endColumn |-> 8, prop |-> FALSE],
                 [type |-> "StringLiteral", value |-> <<"x", "&", "y">>, line |-> 11, column |-> 9, endLine |-> 11, endColumn |-> 14, prop |-> FALSE],
                 [type |-> "StringLiteral", value |-> <<"i", "t", "'", "s">>, line |-> 12, column |-> 2, endLine |-> 12, endColumn |-> 8, prop |-> FALSE],
                 [type |-> "StringLiteral", value |-> <<"p", "&", "q">>, line |-> 13, column |-> 5, endLine |-> 13, endColumn |-> 10, prop |-> TRUE]>>,
       lint |-> <<>>,
       size |-> 85, parseFails |-> FALSE, missing |-> FALSE],
    \* y.js: a literal on a line that assigns to a name with "css" in it
      [path |-> <<"y", ".", "j", "s">>,
       lines |-> <<<<"/", "/">>,
                 <<"c", "s", "s", " ", "=", " ", "\"", "i", "t", "'", "s", " ", "o", "k", "\"">>>>,
       nodes |-> <<[type |-> "StringLiteral", value |-> <<"i", "t", "'", "s", " ", "o", "k">>, line |-> 2, column |-> 6, endLine |-> 2, endColumn |-> 15, prop |-> FALSE]>>,
       lint |-> <<>>,
       size |-> 18, parseFails |-> FALSE, missing |-> FALSE]
    >>

FileIds == 1..Len(Corpus)

\* the file lists globby returns, one per project
Projects ==
    <<  <<1, 2>>,  <<3, 4>>,  <<5, 6, 8, 7>>,  <<9>>,  <<10>>,  <<11>>  >>

MAX_FILE_SIZE == 1048576

NoFix ==
    [type |-> "none", original |-> <<>>, escaped |-> <<>>, escapedChars |-> <<>>,
     line |-> 0, column |-> 0, endLine |-> 0, endColumn |-> 0,
     isJsx |-> FALSE, rawValue |-> <<>>]

\* a check that takes no literal for the value of an attribute
isReactPropValueNever(node) == FALSE

isReactPropValue(node) == node.prop

\* One visit of the traversal of processFile (index.js): the StringLiteral
\* and the JSXText visitor.  The result is kind "skip" (return without
\* effect), "auto" (auto-skip recorded in rejectedFixes), or "push"
\* (stringFixes.push of a fix or of an information entry).
Visited(kind, fix) == [kind |-> kind, fix |-> fix]

\* the object pushed onto stringFixes
FixEntry(type, node, original, escaped, escapedChars) ==
    [type |-> type, original |-> original, escaped |-> escaped,
     escapedChars |-> escapedChars,
     line |-> node.line, column |-> node.column,
     endLine |-> node.endLine, endColumn |-> node.endColumn,
     isJsx |-> node.type = "JSXText",
     rawValue |-> IF node.type = "JSXText" THEN node.value ELSE <<>>]

\* from `const escapeResult = escapeString(original)` to the push
VisitEscaped(filePath, lines, node, strict, original, escapeResult) ==
    IF escapeResult.kind = "same" THEN Visited("skip", NoFix)
    ELSE IF escapeResult.result = original THEN Visited("skip", NoFix)
    ELSE IF isAlreadyFixed(lines, node.line, node.column, original, escapeResult.result)
    THEN Visited("skip", NoFix)
    ELSE Visited(IF isAutoSkipPattern(original, filePath, node.line, strict) # "" /\ ~strict
                 THEN "auto" ELSE "push",
                 FixEntry("fix", node, original, escapeResult.result,
                          escapeResult.escapedChars))

\* the line-window check with a medium match treated as no match
VisitCheckedMediumIgnored(filePath, lines, node, strict, original, escapeCheckResult) ==
    IF escapeCheckResult = "high" THEN Visited("skip", NoFix)
    ELSE IF checkRawFileContent(lines, node.line, node.value) THEN Visited("skip", NoFix)
    ELSE IF node.type = "JSXText" /\ containsHtmlEntities(node.value)
    THEN Visited("skip", NoFix)
    ELSE IF ~isSafeToEscapeInJsx(original,
                                 IF node.line >= 1 /\ node.line <= Len(lines)
                                 THEN lines[node.line] ELSE <<>>)
    THEN Visited("skip", NoFix)
    ELSE VisitEscaped(filePath, lines, node, strict, original,
                      escapeString(original, strict))

\* from the line-window check to the safety check
VisitChecked(filePath, lines, node, strict, original, escapeCheckResult) ==
    IF escapeCheckResult = "high" THEN Visited("skip", NoFix)
    ELSE IF escapeCheckResult = "medium"
    THEN IF strict
         THEN Visited("push", FixEntry("information", node, original, <<>>, <<>>))
         ELSE Visited("skip", NoFix)
    ELSE IF checkRawFileContent(lines, node.line, node.value) THEN Visited("skip", NoFix)
    ELSE IF node.type = "JSXText" /\ containsHtmlEntities(node.value)
    THEN Visited("skip", NoFix)
    ELSE IF ~isSafeToEscapeInJsx(original,
                                 IF node.line >= 1 /\ node.line <= Len(lines)
                                 THEN lines[node.line] ELSE <<>>)
    THEN Visited("skip", NoFix)
    ELSE VisitEscaped(filePath, lines, node, strict, original,
                      escapeString(original, strict))

\* the first checks of a visitor
VisitOriginal(filePath, lines, node, strict, original) ==
    IF node.type = "JSXText" /\ original = <<>> THEN Visited("skip", NoFix)
    ELSE IF ~hasManagedChar(original) THEN Visited("skip", NoFix)
    ELSE IF node.type # "JSXText" /\ isReactPropValue(node) THEN Visited("skip", NoFix)
    ELSE VisitChecked(filePath, lines, node, strict, original,
                      isAlreadyEscapedInLineWindow(lines, node.line, original))

VisitNode(filePath, lines, node, strict) ==
    VisitOriginal(filePath, lines, node, strict,
                  IF node.type = "JSXText" THEN trim(node.value) ELSE node.value)

\* what one visit adds to the fixes pushed and the keys auto-skipped
Collect(filePath, v, rest) ==
    [fixes |-> (IF v.kind = "push" THEN <<v.fix>> ELSE <<>>) \o rest.fixes,
     auto |-> (IF v.kind = "auto"
               THEN {createFixKey(filePath, v.fix.line, v.fix.column, v.fix.original)}
               ELSE {}) \cup rest.auto]

\* traverse(ast, ...): the fixes pushed and the keys auto-skipped
RECURSIVE Traverse(_, _, _, _)
Traverse(filePath, lines, nodes, strict) ==
    IF nodes = <<>> THEN [fixes |-> <<>>, auto |-> {}]
    ELSE Collect(filePath, VisitNode(filePath, lines, Head(nodes), strict),
                 Traverse(filePath, lines, Tail(nodes), strict))

\* convertEslintErrorsToFixes(escapeErrors, fileContent) of lib/eslint.js
RECURSIVE convertEslintErrorsToFixes(_, _)
convertEslintErrorsToFixes(escapeErrors, lines) ==
    IF escapeErrors = <<>> THEN <<>>
    ELSE LET error == Head(escapeErrors)
             lineContent == IF error.line >= 1 /\ error.line <= Len(lines)
                            THEN lines[error.line] ELSE <<>>
             original == substring(lineContent, error.column - 1,
                                   error.column + Len(error.entity) - 1)
             fix == [type |-> "fix", original |-> original,
                     escaped |-> escapeChars(original, {"'", "\""}),
                     escapedChars |-> uniq(matches(original, {"'", "\""})),
                     line |-> error.line, column |-> error.column,
                     endLine |-> error.line,
                     endColumn |-> error.column + Len(error.entity),
                     isJsx |-> TRUE, rawValue |-> original]
         IN  (IF containsHtmlEntities(original) THEN <<>> ELSE <<fix>>)
             \o convertEslintErrorsToFixes(Tail(escapeErrors), lines)

\* the comparator of fixes.sort: a goes before b
SortsBefore(a, b) ==
    IF b.line # a.line THEN b.line - a.line < 0 ELSE b.column - a.column < 0

\* Array.prototype.sort with that comparator (stable)
RECURSIVE InsertSorted(_, _)
InsertSorted(sorted, fix) ==
    IF sorted = <<>> THEN <<fix>>
    ELSE IF SortsBefore(fix, Head(sorted)) THEN <<fix>> \o sorted
    ELSE <<Head(sorted)>> \o InsertSorted(Tail(sorted), fix)

\* the fixes left in the order of the traversal
SortFixesKeepsOrder(fixes) == fixes

RECURSIVE SortFixes(_)
SortFixes(fixes) ==
    IF fixes = <<>> THEN <<>>
    ELSE InsertSorted(SortFixes(SubSeq(fixes, 1, Len(fixes) - 1)), fixes[Len(fixes)])

(***************************************************************************)
(* Applying an accepted fix to the in-memory lines.  Every operator gives  *)
(* the new lines, whether it set `changed`, and how the branch ended:      *)
(* "replaced" (a replacement was logged), "none" (a warning or nothing),   *)
(* "return" (the function returned) or "throw" (a TypeError on a line that *)
(* does not exist, caught by the handler around the prompt).               *)
(***************************************************************************)
Applied(lines, changed, outcome) ==
    [lines |-> lines, changed |-> changed, outcome |-> outcome]

isInsideJsxTag(line, position) ==
    LET lastOpenBracket == lastIndexOf(line, <<"<">>, position)
        lastCloseBracket == lastIndexOf(line, <<">">>, position)
    IN  lastOpenBracket # -1
        /\ (lastCloseBracket = -1 \/ lastOpenBracket > lastCloseBracket)

\* the string-literal branch without the comparison with the original
ApplyLiteralUnchecked(fileLines, fix) ==
    IF fix.line < 1 \/ fix.line > Len(fileLines) THEN Applied(fileLines, FALSE, "throw")
    ELSE
    LET targetLine == fileLines[fix.line]
        column == fix.column
        stringStart == column + 1
        closingQuotePos ==
            IF column >= 0 /\ column < Len(targetLine)
            THEN indexOf(targetLine, <<targetLine[column + 1]>>, stringStart)
            ELSE -1
        newLine == substring(targetLine, 0, stringStart) \o fix.escaped
                   \o substringFrom(targetLine, closingQuotePos)
    IN  IF closingQuotePos > stringStart
        THEN Applied([fileLines EXCEPT ![fix.line] = newLine], TRUE, "replaced")
        ELSE Applied(fileLines, FALSE, "none")

\* the string-literal branch of the 'y' response
ApplyLiteral(fileLines, fix) ==
    IF fix.line < 1 \/ fix.line > Len(fileLines) THEN Applied(fileLines, FALSE, "throw")
    ELSE
    LET targetLine == fileLines[fix.line]
        column == fix.column
        stringStart == column + 1
        closingQuotePos ==
            IF column >= 0 /\ column < Len(targetLine)
            THEN indexOf(targetLine, <<targetLine[column + 1]>>, stringStart)
            ELSE -1
        stringContent == substring(targetLine, stringStart, closingQuotePos)
        newLine == substring(targetLine, 0, stringStart) \o fix.escaped
                   \o substringFrom(targetLine, closingQuotePos)
    IN  IF closingQuotePos > stringStart /\ stringContent = fix.original
        THEN Applied([fileLines EXCEPT ![fix.line] = newLine], TRUE, "replaced")
        ELSE Applied(fileLines, FALSE, "none")

\* the single-line JSX text branch escaping the quotes of the whole line
ApplyJsxSingleWholeLine(fileLines, fix) ==
    IF fix.line < 1 \/ fix.line > Len(fileLines) THEN Applied(fileLines, FALSE, "throw")
    ELSE
    LET targetLine == fileLines[fix.line]
        textIndex == indexOf(targetLine, fix.original, 0)
        newLine == escapeChars(targetLine, {"'", "\""})
    IN  IF includes(targetLine, <<"<">>) /\ includes(targetLine, <<">">>)
        THEN Applied(fileLines, FALSE, "return")
        ELSE IF textIndex >= 0
        THEN Applied([fileLines EXCEPT ![fix.line] = newLine], TRUE, "replaced")
        ELSE Applied(fileLines, FALSE, "none")

\* the single-line JSX text branch without the check for tags on the line
ApplyJsxSingleNoGuard(fileLines, fix) ==
    IF fix.line < 1 \/ fix.line > Len(fileLines) THEN Applied(fileLines, FALSE, "throw")
    ELSE
    LET targetLine == fileLines[fix.line]
        textIndex == indexOf(targetLine, fix.original, 0)
        safeEscaped == escapeChars(fix.original, {"'", "\""})
        newLine == substring(targetLine, 0, textIndex) \o safeEscaped
                   \o substringFrom(targetLine, textIndex + Len(fix.original))
    IN  IF textIndex >= 0
        THEN Applied([fileLines EXCEPT ![fix.line] = newLine], TRUE, "replaced")
        ELSE Applied(fileLines, FALSE, "none")

\* the single-line JSX text branch (the same in index.js and processor.js)
ApplyJsxSingle(fileLines, fix) ==
    IF fix.line < 1 \/ fix.line > Len(fileLines) THEN Applied(fileLines, FALSE, "throw")
    ELSE
    LET targetLine == fileLines[fix.line]
        textIndex == indexOf(targetLine, fix.original, 0)
        safeEscaped == escapeChars(fix.original, {"'", "\""})
        newLine == substring(targetLine, 0, textIndex) \o safeEscaped
                   \o substringFrom(targetLine, textIndex + Len(fix.original))
    IN  IF includes(targetLine, <<"<">>) /\ includes(targetLine, <<">">>)
        THEN Applied(fileLines, FALSE, "return")
        ELSE IF textIndex >= 0
        THEN Applied([fileLines EXCEPT ![fix.line] = newLine], TRUE, "replaced")
        ELSE Applied(fileLines, FALSE, "none")

\* the inner while loop of the multi-line branch of index.js
RECURSIVE ReplaceApostrophes(_, _)
ReplaceApostrophes(newLine, from) ==
    LET pos == indexOf(newLine, <<"'">>, from)
        context == substring(newLine, Max2(0, pos - 5), pos)
    IN  IF pos = -1 THEN newLine
        ELSE IF isInsideJsxTag(newLine, pos) THEN ReplaceApostrophes(newLine, pos + 1)
        ELSE IF ~includes(context, <<"&", "a", "p", "o", "s">>)
        THEN ReplaceApostrophes(substring(newLine, 0, pos) \o APOS
                                \o substringFrom(newLine, pos + 1), pos + 6)
        ELSE ReplaceApostrophes(newLine, pos + 1)

\* the for loop over the raw lines in the multi-line branch of index.js
RECURSIVE MultilineLoop(_, _, _, _, _)
MultilineLoop(fileLines, lines, startLine, i, changed) ==
    IF i >= Len(lines) THEN Applied(fileLines, changed, "replaced")
    ELSE
    LET currentLine == trim(lines[i + 1])
        fileLine == IF startLine + i >= 1 /\ startLine + i <= Len(fileLines)
                    THEN fileLines[startLine + i] ELSE <<>>
        newLine == ReplaceApostrophes(fileLine, 0)
    IN  IF currentLine = <<>>
        THEN MultilineLoop(fileLines, lines, startLine, i + 1, changed)
        ELSE IF fileLine = <<>> THEN Applied(fileLines, changed, "none")
        ELSE IF includes(currentLine, <<"'">>) /\ newLine # fileLine
        THEN MultilineLoop([fileLines EXCEPT ![startLine + i] = newLine],
                           lines, startLine, i + 1, TRUE)
        ELSE MultilineLoop(fileLines, lines, startLine, i + 1, changed)

ApplyJsxMultilineMono(fileLines, fix) ==
    MultilineLoop(fileLines, split(fix.rawValue), fix.line, 0, FALSE)

\* the multi-line branch of processor.js
ApplyJsxMultilineModular(fileLines, fix) ==
    LET originalTrimmed == fix.original
        rawValueLines == split(fix.rawValue)
        found == {i \in 0..(Len(rawValueLines) - 1) :
                     indexOf(rawValueLines[i + 1], originalTrimmed, 0) # -1}
        startLineOfOriginalInRaw ==
            IF found = {} THEN -1 ELSE CHOOSE i \in found : \A j \in found : i <= j
        startColOfOriginalInRaw ==
            indexOf(rawValueLines[startLineOfOriginalInRaw + 1], originalTrimmed, 0)
        targetFileLineIndex == fix.line - 1 + startLineOfOriginalInRaw
        targetFileColumnIndex ==
            IF startLineOfOriginalInRaw = 0
            THEN fix.column + startColOfOriginalInRaw ELSE startColOfOriginalInRaw
        lineToModify ==
            IF targetFileLineIndex >= 0 /\ targetFileLineIndex < Len(fileLines)
            THEN fileLines[targetFileLineIndex + 1] ELSE <<>>
        firstLine == split(originalTrimmed)[1]
        beforeText == substring(lineToModify, 0, targetFileColumnIndex)
        afterText == substringFrom(lineToModify, targetFileColumnIndex + Len(originalTrimmed))
    IN  IF startLineOfOriginalInRaw = -1 THEN Applied(fileLines, FALSE, "none")
        ELSE IF lineToModify = <<>> \/ ~includes(lineToModify, firstLine)
        THEN Applied(fileLines, FALSE, "none")
        ELSE Applied([fileLines EXCEPT ![targetFileLineIndex + 1] =
                          beforeText \o fix.escaped \o afterText], TRUE, "replaced")

\* the 'y' branch as a whole
ApplyFix(modular, fileLines, fix) ==
    IF fix.isJsx
    THEN IF includes(fix.original, <<"\n">>) \/ includes(fix.rawValue, <<"\n">>)
         THEN IF modular THEN ApplyJsxMultilineModular(fileLines, fix)
              ELSE ApplyJsxMultilineMono(fileLines, fix)
         ELSE ApplyJsxSingle(fileLines, fix)
    ELSE ApplyLiteral(fileLines, fix)

(***************************************************************************)
(* The program as a state machine.  impl says which of the two entry       *)
(* points runs: "mono" is src/index.js, "modular" is the entry point that  *)
(* drives lib/processor.js.  A run is one process; Restart starts the next *)
(* process over the same project and store.                                *)
(***************************************************************************)
MaxRuns == 2
MaxExternalEdits == 1

VARIABLES
    impl,           \* which entry point runs
    project,        \* index into Projects: what globby returns
    run,            \* number of the current process
    strictMode,     \* strictMode of index.js / of lib/config.js (setStrictMode)
    pc,             \* "start", "lint", "loop", "prompt", "info", "exited", "done"
    exitCode,       \* -1 while the process lives
    disk,           \* file id -> lines on disk
    mtime,          \* file id -> mtimeMs
    store,          \* the rejected-fixes file: [kind, keys]
    rejectedFixes,  \* keys of the in-memory rejectedFixes object
    fileModTimes,   \* file id -> recorded mtimeMs, 0 when the key is absent
    fi,             \* index of the file being processed (files / allFixes)
    allFixes,       \* processor.js: <<[file, fileContent, fixes]>>
    stringFixes,    \* the sorted fixes of the current file
    idx,            \* index of the fix being presented
    fileLines,      \* in-memory lines of the current file
    changed,        \* the changed flag of the current file
    \* history, observed but never read by the program
    lastKey,        \* the last input event
    edits,          \* number of external edits so far
    conflicts,      \* files whose mtime check failed in this run
    lastWrite,      \* the last attempt to write a patched file
    openLines,      \* lines of the current file as read at open
    openMtime,      \* file id -> mtime when its content was read, 0 if not read
    applied,        \* indices of the fixes whose replacement was made
    staleApply,     \* a replacement was made while mtime # openMtime
    declined,       \* keys recorded by 'n' or auto-skip since the last clear
    loadError,      \* loadRejectedFixes logged an error in this run
    args,           \* the parsed command line of this run
    nKeys,          \* the key last declined with 'n': in this run (now) and
                    \* in the run before (before); <<>> when there is none
    \* the escape functions called on their own
    input,          \* the text handed to escapeString
    outcomes,       \* what escapeString returned, call after call
    skipReason,     \* what isAutoSkipPattern returned, "unset" before the call
    \* getSingleKeypress and the loop that calls it, on their own
    keypressListeners,  \* the onKeypress listeners on process.stdin, oldest
                        \* first: [pending: its promise is not settled yet,
                        \* wasRaw: the raw mode its call found]
    isRaw,          \* process.stdin.isRaw
    settled         \* number of promises the last key event settled

vars == <<impl, project, run, strictMode, pc, exitCode, disk, mtime, store,
          rejectedFixes, fileModTimes, fi, allFixes, stringFixes, idx,
          fileLines, changed, lastKey, edits, conflicts, lastWrite,
          openLines, openMtime, applied, staleApply, declined, loadError,
          args, nKeys, input, outcomes, skipReason, keypressListeners, isRaw,
          settled>>

policyVars == <<input, outcomes, skipReason>>

keyVars == <<keypressListeners, isRaw, settled>>

\* what no step of a process changes
procVars == <<impl, project, run, policyVars, keyVars>>

NoWrite ==
    [file |-> 0, path |-> "none", intended |-> <<>>, wrote |-> FALSE,
     readBack |-> <<>>, report |-> "none"]

Files == Projects[project]

modular == impl = "modular"

\* the strictMode the scan and the escape functions read.  index.js reads
\* its own variable.  lib/escape.js and lib/processor.js read the constant
\* made by `const { strictMode } = require('./config')` when the module was
\* loaded, which setStrictMode of config.js does not change.
strictModeRead == IF modular THEN FALSE ELSE strictMode

\* the file the review loop is working on
CurFile == IF modular THEN allFixes[fi].file ELSE Files[fi]

\* JSON.stringify of rejectedFixes written to the store
Saved(rej) == [kind |-> "ok", keys |-> rej]

\* what a failed short write leaves on disk
Truncated(lines) == SubSeq(lines, 1, Len(lines) - 1)

\* fs.writeFileSync(filePath, content) under outcome w
WriteFileSync(f, lines, w) ==
    IF w = "fail" THEN [disk |-> disk, mtime |-> mtime]
    ELSE [disk |-> [disk EXCEPT ![f] = IF w = "ok" THEN lines ELSE Truncated(lines)],
          mtime |-> [mtime EXCEPT ![f] = @ + 1]]

\* writeFileWithVerification of lib/file.js: TRUE when it returns normally
writeFileWithVerification(f, lines, w) ==
    w # "fail" /\ WriteFileSync(f, lines, w).disk[f] = lines

\* the pre-write check of the end-of-file write
CorruptedEscapes(lines) ==
    \/ includes(join(lines), AMP \o <<"l", "t", ";">>)
    \/ includes(join(lines), AMP \o <<"g", "t", ";">>)

\* a loop that does not move past the fix it has handled
NextStopSame(fixes, filePath, i, rej) == IF i > 1 THEN i - 1 ELSE i

\* index of the next fix the for loop stops at, Len + 1 when it runs out
RECURSIVE NextStop(_, _, _, _)
NextStop(fixes, filePath, i, rej) ==
    IF i > Len(fixes) THEN i
    ELSE IF fixes[i].type = "information" THEN i
    ELSE IF createFixKey(filePath, fixes[i].line, fixes[i].column, fixes[i].original) \in rej
         THEN NextStop(fixes, filePath, i + 1, rej)
    ELSE i

\* a return to the caller's loop that starts the next file with an empty memory
AfterFileForgetting(rej) ==
    /\ pc' = "loop"
    /\ fi' = fi + 1
    /\ rejectedFixes' = {}
    /\ store' = IF modular THEN store ELSE Saved({})
    /\ exitCode' = exitCode

\* processFile / processFileFixes has returned: the caller's loop goes on
AfterFile(rej) ==
    /\ pc' = "loop"
    /\ fi' = fi + 1
    /\ rejectedFixes' = rej
    /\ store' = IF modular THEN store ELSE Saved(rej)
    /\ exitCode' = exitCode

\* the code after the for loop: the end-of-file write, then the return
EndOfFile(f, fixes, lines, chg, rej, fmt, w) ==
    LET skip == chg /\ CorruptedEscapes(lines)
        write == chg /\ ~skip
        res == WriteFileSync(f, lines, w)
        good == IF modular THEN writeFileWithVerification(f, lines, w) ELSE w # "fail"
    IN  /\ disk' = IF write THEN res.disk ELSE disk
        /\ mtime' = IF write THEN res.mtime ELSE mtime
        /\ fileModTimes' = IF write /\ ~modular /\ w # "fail"
                           THEN [fmt EXCEPT ![f] = res.mtime[f]] ELSE fmt
        /\ lastWrite' =
              IF ~chg THEN lastWrite
              ELSE [file |-> f, path |-> "end", intended |-> lines,
                    wrote |-> write /\ w # "fail",
                    readBack |-> IF write THEN res.disk[f] ELSE disk[f],
                    report |-> IF skip THEN "skipped"
                               ELSE IF good THEN "success" ELSE "error"]
        /\ fileLines' = lines
        /\ changed' = chg
        /\ idx' = Len(fixes) + 1
        /\ AfterFile(rej)

\* the for loop continues at fix i with the given local state
Advance(f, fixes, i, lines, chg, rej, fmt, w) ==
    LET j == NextStop(fixes, Corpus[f].path, i, rej)
    IN  IF j <= Len(fixes)
        THEN /\ pc' = IF fixes[j].type = "information" THEN "info" ELSE "prompt"
             /\ idx' = j
             /\ fileLines' = lines
             /\ changed' = chg
             /\ rejectedFixes' = rej
             /\ fileModTimes' = fmt
             /\ UNCHANGED <<disk, mtime, store, fi, exitCode, lastWrite>>
        ELSE EndOfFile(f, fixes, lines, chg, rej, fmt, w)

\* a return out of the middle of the function: nothing is written
ReturnEarly(lines, chg, rej, fmt) ==
    /\ fileLines' = lines
    /\ changed' = chg
    /\ fileModTimes' = fmt
    /\ idx' = idx
    /\ UNCHANGED <<disk, mtime, lastWrite>>
    /\ AfterFile(rej)

\* process.exit(0)
Exit(st) ==
    /\ pc' = "exited"
    /\ exitCode' = 0
    /\ store' = st

Init ==
    /\ impl \in {"mono", "modular"}
    /\ project \in 1..Len(Projects)
    /\ run = 1
    /\ strictMode = FALSE
    /\ pc = "start"
    /\ exitCode = -1
    /\ disk = [f \in FileIds |-> Corpus[f].lines]
    /\ mtime = [f \in FileIds |-> 1]
    /\ store \in {[kind |-> k, keys |-> {}] : k \in {"absent", "unreadable", "corrupt"}}
    /\ rejectedFixes = {}
    /\ fileModTimes = [f \in FileIds |-> 0]
    /\ fi = 1
    /\ allFixes = <<>>
    /\ stringFixes = <<>>
    /\ idx = 0
    /\ fileLines = <<>>
    /\ changed = FALSE
    /\ lastKey = ""
    /\ edits = 0
    /\ conflicts = {}
    /\ lastWrite = NoWrite
    /\ openLines = <<>>
    /\ openMtime = [f \in FileIds |-> 0]
    /\ applied = {}
    /\ staleApply = FALSE
    /\ declined = {}
    /\ loadError = FALSE
    /\ args = [strict |-> FALSE, clearHistory |-> FALSE]
    /\ nKeys = [now |-> <<>>, before |-> <<>>]
    /\ input = <<>>
    /\ outcomes = <<>>
    /\ skipReason = "unset"
    /\ keypressListeners = <<>>
    /\ isRaw = FALSE
    /\ settled = 0

\* loadRejectedFixes without its try/catch: what JSON.parse or readFileSync
\* throws leaves the function
loadRejectedFixesUncaught(st) ==
    IF st.kind = "absent"
    THEN [rejectedFixes |-> {}, logged |-> FALSE, thrown |-> FALSE]
    ELSE IF st.kind \in {"unreadable", "corrupt"}
    THEN [rejectedFixes |-> {}, logged |-> FALSE, thrown |-> TRUE]
    ELSE [rejectedFixes |-> st.keys, logged |-> FALSE, thrown |-> FALSE]

\* loadRejectedFixes(): what it leaves in rejectedFixes, whether it logged
\* an error, and whether an exception left it.  The store is absent, or
\* cannot be read ("unreadable"), or does not hold JSON ("corrupt"), or
\* holds what a run saved ("ok").
loadRejectedFixes(st) ==
    IF st.kind = "absent"
    THEN [rejectedFixes |-> {}, logged |-> FALSE, thrown |-> FALSE]
    ELSE IF st.kind \in {"unreadable", "corrupt"}
    THEN [rejectedFixes |-> {}, logged |-> TRUE, thrown |-> FALSE]
    ELSE [rejectedFixes |-> st.keys, logged |-> FALSE, thrown |-> FALSE]

\* a clear that deletes the file and keeps what the file held in memory
clearRejectionHistoryAfterLoad(st) ==
    [store |-> [kind |-> "absent", keys |-> {}],
     rejectedFixes |-> loadRejectedFixes(st).rejectedFixes]

\* --clear-history: the file is unlinked if it exists and rejectedFixes is {}
\* (in lib/fixes.js the load that follows finds no file)
clearRejectionHistory(st) ==
    [store |-> [kind |-> "absent", keys |-> {}], rejectedFixes |-> {}]

\* the start of the entry point: arguments, then clear or load the store
Main(strict, clearHistory) ==
    /\ pc = "start"
    /\ args' = [strict |-> strict, clearHistory |-> clearHistory]
    /\ nKeys' = nKeys
    /\ strictMode' = strict
    /\ IF clearHistory
       THEN /\ store' = clearRejectionHistory(store).store
            /\ rejectedFixes' = clearRejectionHistory(store).rejectedFixes
            /\ declined' = {}
            /\ loadError' = FALSE
            /\ pc' = IF modular THEN "lint" ELSE "loop"
            /\ exitCode' = exitCode
       ELSE /\ store' = store
            /\ rejectedFixes' = loadRejectedFixes(store).rejectedFixes
            /\ declined' = declined
            /\ loadError' = loadRejectedFixes(store).logged
            /\ pc' = IF loadRejectedFixes(store).thrown THEN "exited"
                     ELSE IF modular THEN "lint" ELSE "loop"
            /\ exitCode' = IF loadRejectedFixes(store).thrown THEN 1 ELSE exitCode
    /\ lastKey' = ""
    /\ UNCHANGED <<procVars, disk, mtime, fileModTimes, fi, allFixes,
                   stringFixes, idx, fileLines, changed, edits, conflicts,
                   lastWrite, openLines, openMtime, applied, staleApply>>

\* processFiles up to the loop over allFixes: lint, then read every file
RECURSIVE ReadAll(_)
ReadAll(files) ==
    IF files = <<>> THEN <<>>
    ELSE LET f == Head(files)
             fixes == convertEslintErrorsToFixes(Corpus[f].lint, disk[f])
             unreadable == Corpus[f].missing \/ Corpus[f].size > MAX_FILE_SIZE
         IN  (IF Corpus[f].lint = <<>> \/ unreadable \/ fixes = <<>> THEN <<>>
              ELSE <<[file |-> f, fileContent |-> disk[f], fixes |-> fixes]>>)
             \o ReadAll(Tail(files))

LintAll(lintFails) ==
    /\ pc = "lint"
    /\ UNCHANGED <<loadError, args, nKeys>>
    /\ allFixes' = IF lintFails THEN <<>> ELSE ReadAll(Files)
    /\ openMtime' = [f \in FileIds |->
                        IF \E i \in 1..Len(allFixes') : allFixes'[i].file = f
                        THEN mtime[f] ELSE openMtime[f]]
    /\ pc' = "loop"
    /\ lastKey' = ""
    /\ UNCHANGED <<procVars, strictMode, exitCode, disk, mtime, store,
                   rejectedFixes, fileModTimes, fi, stringFixes, idx, fileLines,
                   changed, edits, conflicts, lastWrite, openLines,
                   applied, staleApply, declined>>

\* processFile from the traversal on: the scan result, the sort, the loop
Review(f, scan, fmt) ==
    /\ declined' = declined \cup scan.auto
    /\ IF scan.fixes = <<>>
       THEN /\ stringFixes' = <<>>
            /\ ReturnEarly(disk[f], FALSE, rejectedFixes \cup scan.auto, fmt)
       ELSE /\ stringFixes' = SortFixes(scan.fixes)
            /\ Advance(f, stringFixes', 1, disk[f], FALSE,
                       rejectedFixes \cup scan.auto, fmt, "ok")

\* index.js: processFile(files[fi]) up to its first prompt, or to its return
ProcessFileMono ==
    LET f == Files[fi]
        fmt == [fileModTimes EXCEPT ![f] = mtime[f]]
    IN  /\ pc = "loop" /\ ~modular /\ fi <= Len(Files)
        /\ UNCHANGED <<loadError, args, nKeys>>
        /\ lastKey' = ""
        /\ applied' = {}
        /\ UNCHANGED <<procVars, strictMode, allFixes, edits, conflicts, staleApply>>
        /\ IF Corpus[f].missing
           THEN /\ stringFixes' = <<>> /\ openLines' = <<>> /\ openMtime' = openMtime
                /\ declined' = declined
                /\ ReturnEarly(<<>>, FALSE, rejectedFixes, fileModTimes)
           ELSE IF Corpus[f].size > MAX_FILE_SIZE \/ Corpus[f].parseFails
           THEN /\ stringFixes' = <<>> /\ openLines' = <<>> /\ openMtime' = openMtime
                /\ declined' = declined
                /\ ReturnEarly(<<>>, FALSE, rejectedFixes, fmt)
           ELSE /\ openLines' = disk[f]
                /\ openMtime' = [openMtime EXCEPT ![f] = mtime[f]]
                /\ Review(f, Traverse(Corpus[f].path, disk[f], Corpus[f].nodes,
                                      strictModeRead), fmt)

\* processor.js: processFileFixes(allFixes[fi]) up to its first prompt
ProcessFileModular ==
    LET entry == allFixes[fi]
        fixes == SortFixes(entry.fixes)
    IN  /\ pc = "loop" /\ modular /\ fi <= Len(allFixes)
        /\ UNCHANGED <<loadError, args, nKeys>>
        /\ lastKey' = ""
        /\ applied' = {}
        /\ stringFixes' = fixes
        /\ openLines' = entry.fileContent
        /\ UNCHANGED <<procVars, strictMode, allFixes, edits, conflicts,
                       openMtime, staleApply, declined>>
        /\ Advance(entry.file, fixes, 1, entry.fileContent, FALSE,
                   rejectedFixes, fileModTimes, "ok")

\* the end of the run after the last file
Finish ==
    /\ pc = "loop"
    /\ UNCHANGED <<loadError, args, nKeys>>
    /\ fi > (IF modular THEN Len(allFixes) ELSE Len(Files))
    /\ pc' = "done"
    /\ exitCode' = 0
    /\ store' = IF modular THEN Saved(rejectedFixes) ELSE store
    /\ lastKey' = ""
    /\ UNCHANGED <<procVars, strictMode, disk, mtime, rejectedFixes, fileModTimes,
                   fi, allFixes, stringFixes, idx, fileLines, changed, edits,
                   conflicts, lastWrite, openLines, openMtime, applied,
                   staleApply, declined>>

\* getSingleKeypress: the response a key resolves the prompt with
Keys == {"y", "n", "q", "c", "return", "x", "ctrlc"}

\* 'c' taken for 'n'
ResponseContextDeclines(key) ==
    CASE key = "return" -> "y"
      [] key = "c" -> "n"
      [] key \in {"y", "n", "q"} -> key
      [] OTHER -> ""

Response(key) ==
    IF key = "return" THEN "y"
    ELSE IF key \in {"y", "n", "q", "c"} THEN key
    ELSE ""

\* checkFileModification(filePath): TRUE when the recorded mtime differs
checkFileModification(f) ==
    fileModTimes[f] # 0 /\ fileModTimes[f] # mtime[f]

\* the flush of the 'q' branch
QuitFlush(f, w) ==
    LET res == WriteFileSync(f, fileLines, w)
        good == IF modular THEN writeFileWithVerification(f, fileLines, w) ELSE w # "fail"
        fmt == [fileModTimes EXCEPT ![f] = mtime[f]]
    IN  IF changed
        THEN /\ disk' = res.disk
             /\ mtime' = res.mtime
             /\ fileModTimes' = IF good THEN [fmt EXCEPT ![f] = res.mtime[f]] ELSE fmt
             /\ lastWrite' = [file |-> f, path |-> "quit", intended |-> fileLines,
                              wrote |-> w # "fail", readBack |-> res.disk[f],
                              report |-> IF good THEN "success" ELSE "error"]
        ELSE /\ fileModTimes' = fmt
             /\ UNCHANGED <<disk, mtime, lastWrite>>

\* one key at the decision prompt, handled up to the next prompt, the end of
\* the file, or the end of the process
Keypress(key, w) ==
    LET f == CurFile
        fix == stringFixes[idx]
        response == Response(key)
        fixKey == createFixKey(Corpus[f].path, fix.line, fix.column, fix.original)
        fmt == [fileModTimes EXCEPT ![f] = mtime[f]]
        a == ApplyFix(modular, fileLines, fix)
    IN  /\ pc = "prompt"
        /\ UNCHANGED <<loadError, args>>
        /\ nKeys' = IF key # "ctrlc" /\ response = "n" /\ ~checkFileModification(f)
                    THEN [nKeys EXCEPT !.now = fixKey] ELSE nKeys
        /\ lastKey' = key
        /\ UNCHANGED <<procVars, strictMode, allFixes, stringFixes, edits,
                       openLines, openMtime>>
        /\ IF key = "ctrlc"
           THEN /\ Exit(IF modular THEN store ELSE Saved(rejectedFixes))
                /\ UNCHANGED <<disk, mtime, rejectedFixes, fileModTimes, fi, idx,
                               fileLines, changed, conflicts, lastWrite, applied,
                               staleApply, declined>>
           ELSE IF response \in {"", "c"}
           THEN UNCHANGED <<pc, exitCode, disk, mtime, store, rejectedFixes,
                            fileModTimes, fi, idx, fileLines, changed, conflicts,
                            lastWrite, applied, staleApply, declined>>
           ELSE IF checkFileModification(f)
           THEN /\ conflicts' = conflicts \cup {f}
                /\ UNCHANGED <<applied, staleApply, declined>>
                /\ Advance(f, stringFixes, idx + 1, fileLines, changed,
                           rejectedFixes, fileModTimes, w)
           ELSE IF response = "q"
           THEN /\ QuitFlush(f, w)
                /\ Exit(Saved(rejectedFixes))
                /\ UNCHANGED <<rejectedFixes, fi, idx, fileLines, changed,
                               conflicts, applied, staleApply, declined>>
           ELSE IF response = "y"
           THEN /\ applied' = IF a.outcome = "replaced" THEN applied \cup {idx} ELSE applied
                /\ staleApply' = (staleApply \/ (a.changed /\ mtime[f] # openMtime[f]))
                /\ UNCHANGED <<conflicts, declined>>
                /\ IF a.outcome = "return"
                   THEN ReturnEarly(fileLines, changed, rejectedFixes, fmt)
                   ELSE Advance(f, stringFixes, idx + 1, a.lines, changed \/ a.changed,
                                rejectedFixes, fmt, w)
           ELSE /\ declined' = declined \cup {fixKey}
                /\ UNCHANGED <<conflicts, applied, staleApply>>
                /\ Advance(f, stringFixes, idx + 1, fileLines, changed,
                           rejectedFixes \cup {fixKey}, fmt, w)

\* one key at the press-any-key prompt of an information entry
AnyKey(key, w) ==
    /\ pc = "info"
    /\ UNCHANGED <<loadError, args, nKeys>>
    /\ lastKey' = key
    /\ UNCHANGED <<procVars, strictMode, allFixes, stringFixes, edits, conflicts,
                   openLines, openMtime, applied, staleApply, declined>>
    /\ IF key = "ctrlc"
       THEN /\ Exit(store)
            /\ UNCHANGED <<disk, mtime, rejectedFixes, fileModTimes, fi, idx,
                           fileLines, changed, lastWrite>>
       ELSE Advance(CurFile, stringFixes, idx + 1, fileLines, changed,
                    rejectedFixes, fileModTimes, w)

\* the process receives SIGINT while it waits for a key
SIGINT ==
    /\ pc \in {"prompt", "info"}
    /\ UNCHANGED <<loadError, args, nKeys>>
    /\ lastKey' = "sigint"
    /\ Exit(Saved(rejectedFixes))
    /\ UNCHANGED <<procVars, strictMode, disk, mtime, rejectedFixes, fileModTimes,
                   fi, allFixes, stringFixes, idx, fileLines, changed, edits,
                   conflicts, lastWrite, openLines, openMtime, applied,
                   staleApply, declined>>

\* the files this process has read and not finished with
OpenFiles ==
    IF modular THEN {allFixes[i].file : i \in fi..Len(allFixes)} ELSE {Files[fi]}

\* another program edits a file while the process waits for a key
ExternalModify(f) ==
    /\ pc \in {"prompt", "info"}
    /\ UNCHANGED <<loadError, args, nKeys>>
    /\ edits < MaxExternalEdits
    /\ f \in OpenFiles
    /\ edits' = edits + 1
    /\ disk' = [disk EXCEPT ![f] = <<<<"/", "/">>>> \o @]
    /\ mtime' = [mtime EXCEPT ![f] = @ + 1]
    /\ UNCHANGED <<procVars, strictMode, pc, exitCode, store, rejectedFixes,
                   fileModTimes, fi, allFixes, stringFixes, idx, fileLines,
                   changed, lastKey, conflicts, lastWrite, openLines, openMtime,
                   applied, staleApply, declined>>

\* the tool is started again on the same project, the files being as they
\* were before the first run
Restart ==
    /\ pc \in {"exited", "done"}
    /\ run < MaxRuns
    /\ \A f \in FileIds : disk[f] = Corpus[f].lines
    /\ run' = run + 1
    /\ pc' = "start"
    /\ exitCode' = -1
    /\ strictMode' = FALSE
    /\ rejectedFixes' = {}
    /\ fileModTimes' = [f \in FileIds |-> 0]
    /\ fi' = 1
    /\ allFixes' = <<>>
    /\ stringFixes' = <<>>
    /\ idx' = 0
    /\ fileLines' = <<>>
    /\ changed' = FALSE
    /\ lastKey' = ""
    /\ conflicts' = {}
    /\ lastWrite' = NoWrite
    /\ openLines' = <<>>
    /\ openMtime' = [f \in FileIds |-> 0]
    /\ applied' = {}
    /\ staleApply' = FALSE
    /\ loadError' = FALSE
    /\ args' = [strict |-> FALSE, clearHistory |-> FALSE]
    /\ nKeys' = [now |-> <<>>, before |-> nKeys.now]
    /\ UNCHANGED <<impl, project, disk, mtime, store, edits, declined, policyVars,
                   keyVars>>

WriteOutcomes == {"ok", "fail", "tamper"}

Next ==
    \/ \E strict \in BOOLEAN, clearHistory \in BOOLEAN : Main(strict, clearHistory)
    \/ \E lintFails \in BOOLEAN : LintAll(lintFails)
    \/ ProcessFileMono
    \/ ProcessFileModular
    \/ Finish
    \/ \E key \in Keys, w \in WriteOutcomes : Keypress(key, w)
    \/ \E key \in {"x", "ctrlc"}, w \in WriteOutcomes : AnyKey(key, w)
    \/ SIGINT
    \/ \E f \in FileIds : ExternalModify(f)
    \/ Restart

Spec == Init /\ [][Next]_vars

(***************************************************************************)
(* The escape functions on their own.  escapeString and isAutoSkipPattern  *)
(* are pure but for the strictMode they read; here they are called on      *)
(* every text made of at most MaxLen tokens and on the texts of the        *)
(* scenarios, after --strict or without it, as index.js or as              *)
(* lib/escape.js has them, outside any run (pc = "policy").                *)
(***************************************************************************)
MaxLen == 3

Tokens ==
    { <<"'">>, <<"\"">>, <<"&">>, <<"<">>, <<">">>, <<"a">>, <<" ">>, <<"?">>,
      <<"=">>, <<":">>, <<"a", "m", "p", ";">>, <<"#", "1", ";">>,
      <<"f", "i", "l", "t", "e", "r">>, <<"q", "u", "e", "r", "y">>,
      <<"p", "a", "r", "a", "m">> }

RECURSIVE TextsOf(_)
TextsOf(n) ==
    IF n = 0 THEN {<<>>}
    ELSE {t \o tok : t \in TextsOf(n - 1), tok \in Tokens}

\* It's "fine"
ScenarioA ==
    <<"I", "t", "'", "s", " ", "\"", "f", "i", "n", "e", "\"">>
\* & filter=active
ScenarioB ==
    <<"&", " ", "f", "i", "l", "t", "e", "r", "=", "a", "c", "t", "i", "v", "e">>
\* Don't <b>stop</b>
ScenarioC ==
    <<"D", "o", "n", "'", "t", " ", "<", "b", ">", "s", "t", "o", "p", "<", "/",
      "b", ">">>

Inputs == UNION {TextsOf(n) : n \in 0..MaxLen} \cup {ScenarioA, ScenarioB, ScenarioC}

InitPolicy ==
    /\ input \in Inputs
    /\ strictMode \in BOOLEAN
    /\ outcomes = <<>>
    /\ skipReason = "unset"
    /\ pc = "policy"
    /\ impl \in {"mono", "modular"}
    /\ project = 1
    /\ run = 1
    /\ exitCode = -1
    /\ disk = [f \in FileIds |-> Corpus[f].lines]
    /\ mtime = [f \in FileIds |-> 1]
    /\ store = [kind |-> "absent", keys |-> {}]
    /\ rejectedFixes = {}
    /\ fileModTimes = [f \in FileIds |-> 0]
    /\ fi = 1
    /\ allFixes = <<>>
    /\ stringFixes = <<>>
    /\ idx = 0
    /\ fileLines = <<>>
    /\ changed = FALSE
    /\ lastKey = ""
    /\ edits = 0
    /\ conflicts = {}
    /\ lastWrite = NoWrite
    /\ openLines = <<>>
    /\ openMtime = [f \in FileIds |-> 0]
    /\ applied = {}
    /\ staleApply = FALSE
    /\ declined = {}
    /\ loadError = FALSE
    /\ args = [strict |-> FALSE, clearHistory |-> FALSE]
    /\ nKeys = [now |-> <<>>, before |-> <<>>]
    /\ keypressListeners = <<>>
    /\ isRaw = FALSE
    /\ settled = 0

runVars == <<impl, project, run, strictMode, pc, exitCode, disk, mtime, store,
             rejectedFixes, fileModTimes, fi, allFixes, stringFixes, idx,
             fileLines, changed, lastKey, edits, conflicts, lastWrite,
             openLines, openMtime, applied, staleApply, declined, loadError,
             args, nKeys, keyVars>>

\* the text the next call of escapeString is given: the input, then the
\* result of the call before (a returned string is its own result)
NextArgument == IF outcomes = <<>> THEN input ELSE outcomes[Len(outcomes)].result

\* escapeString(str), called on the input and then on what it returned
Decide ==
    /\ pc = "policy"
    /\ Len(outcomes) < 2
    /\ outcomes' = Append(outcomes, escapeString(NextArgument, strictModeRead))
    /\ UNCHANGED <<runVars, input, skipReason>>

\* isAutoSkipPattern(original, filePath, line, column), called on the input
\* as a text of the first line of the first file
AutoSkip ==
    /\ pc = "policy"
    /\ skipReason = "unset"
    /\ skipReason' = isAutoSkipPattern(input, Head(Corpus).path, 1, strictModeRead)
    /\ UNCHANGED <<runVars, input, outcomes>>

NextPolicy == Decide \/ AutoSkip

SpecPolicy == InitPolicy /\ [][NextPolicy]_vars

(***************************************************************************)
(* getSingleKeypress on its own.  The decision loop of processFile calls   *)
(* it for each candidate, and again after each 'c'; a key event runs every *)
(* listener that is registered on process.stdin at that moment, in the     *)
(* order of registration.  Here the loop runs over MaxPrompts candidates   *)
(* whose patches are left out (pc is "call", "wait" or "closed").          *)
(***************************************************************************)
MaxPrompts == 4

\* bound on the listeners registered at once: caps the 'c' answers in a row
MaxListeners == 4

InitKeys ==
    /\ pc = "call"
    /\ idx = 1
    /\ keypressListeners = <<>>
    /\ isRaw = FALSE
    /\ settled = 0
    /\ lastKey = ""
    /\ input = <<>>
    /\ outcomes = <<>>
    /\ skipReason = "unset"
    /\ strictMode = FALSE
    /\ impl \in {"mono", "modular"}
    /\ project = 1
    /\ run = 1
    /\ exitCode = -1
    /\ disk = [f \in FileIds |-> Corpus[f].lines]
    /\ mtime = [f \in FileIds |-> 1]
    /\ store = [kind |-> "absent", keys |-> {}]
    /\ rejectedFixes = {}
    /\ fileModTimes = [f \in FileIds |-> 0]
    /\ fi = 1
    /\ allFixes = <<>>
    /\ stringFixes = <<>>
    /\ fileLines = <<>>
    /\ changed = FALSE
    /\ edits = 0
    /\ conflicts = {}
    /\ lastWrite = NoWrite
    /\ openLines = <<>>
    /\ openMtime = [f \in FileIds |-> 0]
    /\ applied = {}
    /\ staleApply = FALSE
    /\ declined = {}
    /\ loadError = FALSE
    /\ args = [strict |-> FALSE, clearHistory |-> FALSE]
    /\ nKeys = [now |-> <<>>, before |-> <<>>]

\* what the calls and the key events leave alone
keysFrame == <<impl, project, run, strictMode, disk, mtime, store, rejectedFixes,
               fileModTimes, fi, allFixes, stringFixes, fileLines, changed,
               edits, conflicts, lastWrite, openLines, openMtime, applied,
               staleApply, declined, loadError, args, nKeys, policyVars>>

\* getSingleKeypress(prompt), up to the return of its promise: raw mode on,
\* one more keypress listener
getSingleKeypress ==
    /\ pc = "call"
    /\ keypressListeners' = Append(keypressListeners, [pending |-> TRUE, wasRaw |-> isRaw])
    /\ isRaw' = TRUE
    /\ pc' = "wait"
    /\ UNCHANGED <<keysFrame, idx, lastKey, exitCode, settled>>

\* number of listeners whose promise is not settled
Pending(ls) == Cardinality({i \in 1..Len(ls) : ls[i].pending})

\* cleanupAndExit run by every listener: each one that had found raw mode off
\* switches it off
RawAfterCleanup(ls, raw) == IF \E i \in 1..Len(ls) : ~ls[i].wasRaw THEN FALSE ELSE raw

\* a key event: onKeypress(str, key) of every registered listener, then the
\* code of the loop after its await
KeyEvent(key) ==
    /\ pc = "wait"
    /\ lastKey' = key
    /\ UNCHANGED keysFrame
    /\ IF key = "ctrlc"
       THEN \* the first listener cleans up and ends the process
            /\ keypressListeners' = Tail(keypressListeners)
            /\ isRaw' = RawAfterCleanup(<<Head(keypressListeners)>>, isRaw)
            /\ settled' = 0
            /\ pc' = "closed" /\ exitCode' = 0 /\ idx' = idx
       ELSE IF key = "c"
       THEN \* resolve('c') without cleanup; the loop shows the context and
            \* calls getSingleKeypress again
            /\ Len(keypressListeners) < MaxListeners
            /\ keypressListeners' =
                  [i \in 1..Len(keypressListeners) |->
                      [keypressListeners[i] EXCEPT !.pending = FALSE]]
            /\ settled' = Pending(keypressListeners)
            /\ pc' = "call"
            /\ UNCHANGED <<isRaw, exitCode, idx>>
       ELSE IF Response(key) \in {"y", "n", "q"}
       THEN \* cleanupAndExit(str) in every listener; the loop decides
            /\ keypressListeners' = <<>>
            /\ isRaw' = RawAfterCleanup(keypressListeners, isRaw)
            /\ settled' = Pending(keypressListeners)
            /\ IF Response(key) = "q"
               THEN pc' = "closed" /\ exitCode' = 0 /\ idx' = idx
               ELSE /\ idx' = idx + 1
                    /\ pc' = IF idx < MaxPrompts THEN "call" ELSE "closed"
                    /\ exitCode' = exitCode
       ELSE \* no branch of onKeypress takes the key
            /\ settled' = 0
            /\ UNCHANGED <<keypressListeners, isRaw, pc, exitCode, idx>>

NextKeys == getSingleKeypress \/ \E key \in Keys : KeyEvent(key)

SpecKeys == InitKeys /\ [][NextKeys]_vars

(***************************************************************************)
(* Properties.                                                             *)
(***************************************************************************)
StoreKeys == IF store.kind = "ok" THEN store.keys ELSE {}

Reviewing == pc \in {"prompt", "info"}

\* offset of the first character of a line in the text lines.join('\n')
RECURSIVE LineOffset(_, _)
LineOffset(lines, line) ==
    IF line <= 1 THEN 0
    ELSE LineOffset(lines, line - 1) + Len(lines[line - 1]) + 1

\* offset of the first character of fix.original at the place the candidate
\* was found: after the opening quote of a literal, after the leading white
\* space of a JSX text node, at the 1-based column of a lint finding
CandidateOffset(lines, fix) ==
    LineOffset(lines, fix.line)
    + (IF ~fix.isJsx THEN fix.column + 1
       ELSE IF modular THEN fix.column - 1
       ELSE fix.column + (Len(fix.rawValue) - Len(trimStart(fix.rawValue))))

\* the text in which exactly the spans of the fixes in `done` are replaced by
\* their escaped text, the fixes taken in the order of the sorted list
RECURSIVE ExpectedText(_, _, _, _, _)
ExpectedText(text, lines, fixes, i, done) ==
    IF i > Len(fixes) THEN text
    ELSE IF i \notin done THEN ExpectedText(text, lines, fixes, i + 1, done)
    ELSE ExpectedText(substring(text, 0, CandidateOffset(lines, fixes[i]))
                      \o fixes[i].escaped
                      \o substringFrom(text, CandidateOffset(lines, fixes[i])
                                             + Len(fixes[i].original)),
                      lines, fixes, i + 1, done)

\* C1: position safety.  The in-memory text of the current file is the text
\* read at open with exactly the span of every applied candidate replaced by
\* that candidate's escaped text, and nothing else changed.
C1_PositionSafety ==
    join(fileLines) = ExpectedText(join(openLines), openLines, stringFixes, 1, applied)

\* C2: no re-offer.  A candidate whose key was recorded by a decline or an
\* auto-skip (and not cleared since) is never presented at a decision prompt
\* again, in this run or in a later run over the unmodified files.
C2_NoReoffer ==
    pc = "prompt" =>
        createFixKey(Corpus[CurFile].path, stringFixes[idx].line,
                     stringFixes[idx].column, stringFixes[idx].original) \notin declined

\* C3: external-modification conflict.  Once the mtime check has failed for
\* a file, no candidate of that file is presented any more and the file is
\* not written in this run.
C3_ConflictAbortsFile ==
    \A f \in conflicts :
        /\ ~(Reviewing /\ CurFile = f)
        /\ ~(lastWrite.file = f /\ lastWrite.wrote)

\* C4: modification-time guard.  No apply has changed the in-memory lines of
\* a file while the file's mtime on disk differed from the mtime it had when
\* its content was read.
C4_MtimeGuard == ~staleApply

\* C5: quit.  After 'q' at a decision prompt the process has terminated with
\* exit code 0, the store holds the in-memory rejection records, and the
\* patched content of the current file, if any, was written.
C5_Quit ==
    lastKey = "q" =>
        /\ pc = "exited"
        /\ exitCode = 0
        /\ rejectedFixes \subseteq StoreKeys
        /\ changed => (lastWrite.file = CurFile /\ lastWrite.path = "quit"
                       /\ lastWrite.intended = fileLines)

\* C6: interrupt flushes patches.  When the process has terminated on Ctrl+C
\* or SIGINT while the current file had patches applied in memory, those
\* patches were written before it terminated.
C6_InterruptFlushesPatches ==
    (pc = "exited" /\ lastKey \in {"ctrlc", "sigint"} /\ changed) =>
        (lastWrite.file = CurFile /\ lastWrite.intended = fileLines)

\* C7: rejection memory is persisted on every early termination.  When the
\* process has terminated early, every in-memory rejection record is in the
\* store.
C7_PersistedOnEarlyExit ==
    pc = "exited" => rejectedFixes \subseteq StoreKeys

\* C8: rejection memory is saved after every file.  When processing of a
\* file has ended and another file follows, every in-memory rejection record
\* is in the store.
C8_SavedAfterEveryFile ==
    (pc = "loop" /\ fi > 1 /\ fi <= (IF modular THEN Len(allFixes) ELSE Len(Files)))
        => rejectedFixes \subseteq StoreKeys

\* an escaped ampersand directly followed by quot; apos; lt; or gt;
DoubleEscaped(text) ==
    \E tail \in {<<"q", "u", "o", "t", ";">>, <<"a", "p", "o", "s", ";">>,
                 <<"l", "t", ";">>, <<"g", "t", ";">>} :
        includes(text, AMP \o tail)

\* C9: corruption guard.  No write path has written a text that contains a
\* double-escaped entity.
C9_CorruptionGuard ==
    lastWrite.wrote => ~DoubleEscaped(join(lastWrite.intended))

\* C10: write verification.  A patched file is reported as saved only if
\* what is on disk after the write equals the intended content.
C10_WriteVerification ==
    lastWrite.report = "success" => lastWrite.readBack = lastWrite.intended

\* C11 (as stated): for every text with a managed character and no escaped
\* entity, escapeString called on what escapeString returned for it returns
\* its argument itself, the "no escaping needed" value.
C11_Idempotence ==
    (Len(outcomes) = 2 /\ hasManagedChar(input) /\ ~containsHtmlEntities(input))
        => outcomes[2].kind = "same"

\* C11 (amended): for every such text the second call changes nothing: its
\* result is its argument and it reports no changed character; it returns
\* the argument itself whenever the first call replaced a character.
C11_IdempotenceAmended ==
    (Len(outcomes) = 2 /\ hasManagedChar(input) /\ ~containsHtmlEntities(input))
        => /\ outcomes[2].result = outcomes[1].result
           /\ outcomes[2].escapedChars = <<>>
           /\ outcomes[1].result # input => outcomes[2].kind = "same"

C11_Witness ==
    /\ Len(outcomes) = 2
    /\ hasManagedChar(input) /\ ~containsHtmlEntities(input)
    /\ outcomes[1].kind = "obj" /\ outcomes[1].result # input
    /\ outcomes[2].kind = "same"

\* s without the characters of set, the others in order
without(s, set) == SelectSeq(s, LAMBDA c : c \notin set)

\* the number of positions of s that hold c
occurrences(s, c) == Cardinality({i \in 1..Len(s) : s[i] = c})

\* s with the three entity tokens of ' " & taken out
withoutTokens(s) == replaceAll(replaceAll(replaceAll(s, AMP, <<>>), APOS, <<>>), QUOT, <<>>)

ScenarioCEscaped ==
    <<"D", "o", "n", "&", "a", "p", "o", "s", ";", "t", " ", "<", "b", ">", "s",
      "t", "o", "p", "<", "/", "b", ">">>

ScenarioAEscaped ==
    <<"I", "t", "&", "a", "p", "o", "s", ";", "s", " ", "&", "q", "u", "o", "t",
      ";", "f", "i", "n", "e", "&", "q", "u", "o", "t", ";">>

\* the managed characters whose entity the escaped text holds
replacedChars(escaped) ==
    {c \in {"'", "\"", "&", "<", ">"} : includes(escaped, ESCAPES(c))}

\* C14: when escapeString escapes a text, escapedChars lists the managed
\* characters of the text that were replaced by their entity, those and no
\* others, each of them once.
C14_ChangedCharacters ==
    (Len(outcomes) >= 1 /\ outcomes[1].kind = "obj")
        => LET escapedChars == outcomes[1].escapedChars
           IN  /\ {escapedChars[i] : i \in 1..Len(escapedChars)}
                      = replacedChars(outcomes[1].result) \cap Chars(input)
               /\ \A i, j \in 1..Len(escapedChars) :
                      escapedChars[i] = escapedChars[j] => i = j

C14_Witness ==
    /\ Len(outcomes) >= 1 /\ outcomes[1].kind = "obj"
    /\ input = ScenarioA
    /\ outcomes[1].result = ScenarioAEscaped
    /\ outcomes[1].escapedChars = <<"'", "\"">>

\* the text holds & and one of the words of the query-parameter check
queryParameterText(s) ==
    /\ includes(s, <<"&">>)
    /\ \/ includes(s, <<"q", "u", "e", "r", "y">>)
       \/ includes(s, <<"f", "i", "l", "t", "e", "r">>)
       \/ includes(s, <<"p", "a", "r", "a", "m">>)

\* &amp; filter=active
ScenarioBEscaped ==
    <<"&", "a", "m", "p", ";", " ", "f", "i", "l", "t", "e", "r", "=", "a", "c",
      "t", "i", "v", "e">>

C16_StrictPresentsAll ==
    strictMode
        => /\ Len(outcomes) >= 1 /\ outcomes[1].kind = "same"
                  => containsHtmlEntities(input)
           /\ skipReason \in {"unset", ""}

\* C17: the answer 'c' at the decision prompt leaves the loop at the prompt
\* of the same candidate, with the same candidates after it, the same
\* in-memory lines, changed flag and rejectedFixes, and nothing written.
C17_ShowContextKeepsCandidate ==
    [][(pc = "prompt" /\ lastKey' = "c")
           => /\ pc' = "prompt"
              /\ UNCHANGED <<fi, idx, stringFixes, allFixes, fileLines, changed,
                             rejectedFixes, store, fileModTimes, lastWrite, applied>>]_vars

C17_Witness ==
    /\ pc = "prompt" /\ lastKey = "c"
    /\ changed /\ idx > 1 /\ idx < Len(stringFixes)
    /\ rejectedFixes # {}

\* candidate a lies before candidate b in the file
Smaller(a, b) == a.line < b.line \/ (a.line = b.line /\ a.column < b.column)

\* C18: within a file the candidate presented next never lies after the one
\* presented before it: the line does not grow, and within a line the column
\* does not grow.
C18_PresentationOrder ==
    [][(Reviewing /\ Reviewing' /\ fi' = fi)
           => /\ stringFixes' = stringFixes
              /\ idx' >= idx
              /\ ~Smaller(stringFixes[idx], stringFixes'[idx'])]_vars

C18_Witness ==
    /\ Reviewing /\ idx = 3
    /\ lastKey \in {"y", "n", "return"}
    /\ stringFixes[1].line > stringFixes[2].line
    /\ stringFixes[2].line = stringFixes[3].line
    /\ stringFixes[2].column > stringFixes[3].column

\* the text between the character at the recorded column of the candidate's
\* line and the next occurrence of that character is the candidate's original
LiteralMatches(lines, fix) ==
    /\ fix.line >= 1 /\ fix.line <= Len(lines)
    /\ fix.column + 1 <= Len(lines[fix.line])
    /\ LET targetLine == lines[fix.line]
           closing == indexOf(targetLine, <<targetLine[fix.column + 1]>>, fix.column + 1)
       IN  /\ closing > fix.column + 1
           /\ substring(targetLine, fix.column + 1, closing) = fix.original

TagGuarded(lines, fix) ==
    /\ fix.type = "fix" /\ fix.isJsx
    /\ ~includes(fix.original, <<"\n">>) /\ ~includes(fix.rawValue, <<"\n">>)
    /\ fix.line >= 1 /\ fix.line <= Len(lines)
    /\ includes(lines[fix.line], <<"<">>) /\ includes(lines[fix.line], <<">">>)

\* C20: when such a candidate is approved, its line is not patched, nothing
\* is written, and no further candidate of the file is presented.
C20_TagGuardAbortsFile ==
    [][(/\ pc = "prompt" /\ lastKey' \in {"y", "return"} /\ edits' = edits
        /\ ~checkFileModification(CurFile)
        /\ TagGuarded(fileLines, stringFixes[idx]))
           => /\ ~(Reviewing' /\ fi' = fi)
              /\ fileLines' = fileLines
              /\ idx \notin applied'
              /\ disk' = disk /\ lastWrite' = lastWrite]_vars

C20_Witness ==
    /\ pc = "loop" /\ fi > 1 /\ lastKey \in {"y", "return"}
    /\ idx >= 1 /\ idx < Len(stringFixes)
    /\ TagGuarded(fileLines, stringFixes[idx])
    /\ idx \notin applied /\ changed
    /\ LET f == IF modular THEN allFixes[fi - 1].file ELSE Files[fi - 1]
       IN  /\ disk[f] = Corpus[f].lines
           /\ \E j \in (idx + 1)..Len(stringFixes) :
                  createFixKey(Corpus[f].path, stringFixes[j].line,
                               stringFixes[j].column, stringFixes[j].original)
                      \notin rejectedFixes

\* the candidate is markup text on one line
SingleLineJsx(fix) ==
    /\ fix.type = "fix" /\ fix.isJsx
    /\ ~includes(fix.original, <<"\n">>) /\ ~includes(fix.rawValue, <<"\n">>)

\* text with each apostrophe and each quote replaced by its entity
quotesEscaped(text) == replaceAll(replaceAll(text, <<"'">>, APOS), <<"\"">>, QUOT)

\* C21: approving a single-line markup-text candidate whose line passes the
\* tag guard changes at most the candidate's line, and in it only the first
\* occurrence of the original text, where each apostrophe and each quote is
\* replaced by its entity; the text before and after the occurrence, and so
\* every <, > and & of the line, stays as it is.
C21_SingleLineJsxPatch ==
    [][(/\ pc = "prompt" /\ lastKey' \in {"y", "return"} /\ edits' = edits
        /\ ~checkFileModification(CurFile)
        /\ SingleLineJsx(stringFixes[idx])
        /\ ~TagGuarded(fileLines, stringFixes[idx])
        /\ stringFixes[idx].line \in 1..Len(fileLines))
           => LET fix == stringFixes[idx]
                  targetLine == fileLines[fix.line]
                  at == indexOf(targetLine, fix.original, 0)
                  newLine == fileLines'[fix.line]
              IN  /\ Len(fileLines') = Len(fileLines)
                  /\ \A n \in 1..Len(fileLines) : n # fix.line => fileLines'[n] = fileLines[n]
                  /\ at < 0 => newLine = targetLine
                  /\ at >= 0 =>
                        /\ newLine = substring(targetLine, 0, at)
                                     \o quotesEscaped(fix.original)
                                     \o substringFrom(targetLine, at + Len(fix.original))
                        /\ occurrences(newLine, "<") = occurrences(targetLine, "<")
                        /\ occurrences(newLine, ">") = occurrences(targetLine, ">")
                        /\ occurrences(newLine, "&") =
                               occurrences(targetLine, "&")
                               + occurrences(fix.original, "'")
                               + occurrences(fix.original, "\"")]_vars

C21_Witness ==
    /\ lastKey \in {"y", "return"}
    /\ \E i \in applied :
           /\ i \in 1..Len(stringFixes) /\ SingleLineJsx(stringFixes[i])
           /\ stringFixes[i].line \in 1..Len(fileLines)
           /\ fileLines[stringFixes[i].line] # openLines[stringFixes[i].line]
           /\ includes(fileLines[stringFixes[i].line], APOS)
           /\ includes(fileLines[stringFixes[i].line], <<"'">>)

\* the candidate is markup text whose raw value spans several lines
MultiLineJsx(fix) ==
    /\ fix.type = "fix" /\ fix.isJsx
    /\ includes(fix.original, <<"\n">>) \/ includes(fix.rawValue, <<"\n">>)

\* the lines of the raw value that hold the trimmed original text, counted
\* from 0
RawLinesWithOriginal(fix) ==
    {k \in 0..(Len(split(fix.rawValue)) - 1) :
        includes(split(fix.rawValue)[k + 1], fix.original)}

\* new is old with one occurrence of the original replaced by its escaped form
OneOccurrenceReplaced(old, new, fix) ==
    \E at \in 0..Len(old) :
        /\ matchAt(old, fix.original, at)
        /\ \/ new = substring(old, 0, at) \o fix.escaped
                    \o substringFrom(old, at + Len(fix.original))
           \/ new = substring(old, 0, at) \o quotesEscaped(fix.original)
                    \o substringFrom(old, at + Len(fix.original))

\* C22: approving a markup-text candidate whose raw value spans several lines
\* changes no line but the first line of the span that holds the trimmed
\* original text, and in that line only one occurrence of that text.
C22_MultiLineJsxPatchIsLocal ==
    [][(/\ pc = "prompt" /\ lastKey' \in {"y", "return"} /\ edits' = edits
        /\ ~checkFileModification(CurFile)
        /\ MultiLineJsx(stringFixes[idx])
        /\ RawLinesWithOriginal(stringFixes[idx]) # {})
           => LET fix == stringFixes[idx]
                  first == CHOOSE k \in RawLinesWithOriginal(fix) :
                               \A j \in RawLinesWithOriginal(fix) : k <= j
                  target == fix.line + first
              IN  /\ Len(fileLines') = Len(fileLines)
                  /\ \A n \in 1..Len(fileLines) :
                         n # target => fileLines'[n] = fileLines[n]
                  /\ target \in 1..Len(fileLines)
                         => \/ fileLines'[target] = fileLines[target]
                            \/ OneOccurrenceReplaced(fileLines[target],
                                                     fileLines'[target], fix)]_vars

\* the store holds nothing a load can use: no file, a file that cannot be
\* read, or a file that is not JSON
StoreUnusable == store.kind \in {"absent", "unreadable", "corrupt"}

\* C23: when the store is absent, unreadable or not valid JSON, the load at
\* the start of a run leaves rejectedFixes empty, logs an error unless the
\* store is merely absent, and the run goes on to its files with no exit.
C23_StoreTolerance ==
    [][(pc = "start" /\ pc' # "start" /\ store' = store /\ StoreUnusable)
        => /\ rejectedFixes' = {}
           /\ (store.kind \in {"unreadable", "corrupt"} => loadError')
           /\ (store.kind = "absent" => ~loadError')
           /\ pc' = (IF modular THEN "lint" ELSE "loop")
           /\ exitCode' = exitCode]_vars

\* a run that began with a store that is not JSON is at a prompt, the error
\* logged and nothing remembered
C23_Witness ==
    /\ pc = "prompt"
    /\ store.kind = "corrupt"
    /\ loadError
    /\ rejectedFixes = {}

\* the key of the candidate at the prompt
PromptKey ==
    createFixKey(Corpus[CurFile].path, stringFixes[idx].line,
                 stringFixes[idx].column, stringFixes[idx].original)

\* C24: a run started with --clear-history has deleted the store and emptied
\* rejectedFixes before its first file is processed, and from then on
\* rejectedFixes holds only keys recorded in this run, so that no decline of
\* an earlier run keeps a candidate from being presented.
C24_ClearHistory ==
    (args.clearHistory /\ pc # "start") =>
        /\ ((pc \in {"lint", "loop"} /\ fi = 1 /\ lastKey = "" /\ stringFixes = <<>>
             /\ fileModTimes = [f \in FileIds |-> 0])
            => (store.kind = "absent" /\ rejectedFixes = {}))
        /\ rejectedFixes \subseteq declined

\* a second run started with --clear-history is at the prompt of a candidate
\* that was declined in the first run
C24_Witness ==
    /\ run = 2
    /\ args.clearHistory
    /\ pc = "prompt"
    /\ PromptKey = nKeys.before

\* the text of a node that the visitors work on
OriginalOf(node) == IF node.type = "JSXText" THEN trim(node.value) ELSE node.value

\* the nodes of the file under review that reach the line-window check and
\* for which it reports the given confidence, on the text the file was read with
NodesChecked(confidence) ==
    {n \in {Corpus[CurFile].nodes[i] : i \in 1..Len(Corpus[CurFile].nodes)} :
        /\ hasManagedChar(OriginalOf(n))
        /\ ~(n.type # "JSXText" /\ isReactPropValue(n))
        /\ isAlreadyEscapedInLineWindow(openLines, n.line, OriginalOf(n)) = confidence}

\* the entries of stringFixes made for a node
EntriesOf(n) ==
    {i \in 1..Len(stringFixes) :
        stringFixes[i].line = n.line /\ stringFixes[i].column = n.column}

\* while index.js reviews a file, a node with a medium match has no entry in
\* normal mode and exactly an information entry in strict mode
MediumIsInformation ==
    (~modular /\ pc \in {"prompt", "info"}) =>
        \A n \in NodesChecked("medium") :
            /\ \A i \in EntriesOf(n) : stringFixes[i].type = "information"
            /\ (EntriesOf(n) # {}) = strictMode

\* C25: a medium-confidence match never produces a patch.  In normal mode the
\* node gets no entry; in strict mode it gets an information entry only, and
\* the key pressed at its prompt leaves the in-memory lines, the changed flag,
\* rejectedFixes and the set of applied fixes as they were.
C25_MediumNeverPatches ==
    /\ []MediumIsInformation
    /\ [][(pc = "info" /\ edits' = edits)
            => UNCHANGED <<fileLines, changed, rejectedFixes, applied>>]_vars

\* a strict run of index.js has applied a fix, then shown the information
\* entry of a medium match and taken a key, and has written the file
C25_Witness ==
    /\ ~modular /\ strictMode
    /\ pc = "loop" /\ fi > 1
    /\ idx = Len(stringFixes) + 1 /\ idx > 1
    /\ stringFixes[idx - 1].type = "information"
    /\ changed /\ applied # {}
    /\ lastKey \notin {"", "ctrlc", "sigint"}
    /\ lastWrite.file = Files[fi - 1] /\ lastWrite.report = "success"

\* the original with every managed character replaced by its entity
FullyEscaped(original) == escapeChars(original, {"\"", "'", "&", "<", ">"})

\* the fully escaped form of the original occurs on a line of the file, as it
\* was read, at most ten lines from the given line
EscapedNearby(line, original) ==
    \E l \in 1..Len(openLines) :
        /\ l >= line - 10 /\ l <= line + 10
        /\ includes(openLines[l], FullyEscaped(original))

\* C26: a node whose fully escaped form occurs on a line at most ten lines
\* from its reported line is reported with confidence high and has no entry
\* among the fixes to present, in normal and in strict mode.
C26_HighAlwaysSkips ==
    (~modular /\ pc \in {"prompt", "info"}) =>
        \A n \in {Corpus[CurFile].nodes[i] : i \in 1..Len(Corpus[CurFile].nodes)} :
            (hasManagedChar(OriginalOf(n)) /\ EscapedNearby(n.line, OriginalOf(n)))
                => /\ isAlreadyEscapedInLineWindow(openLines, n.line, OriginalOf(n)) = "high"
                   /\ EntriesOf(n) = {}

\* the literals of the file under review that are the value of an attribute
PropValues ==
    {n \in {Corpus[CurFile].nodes[i] : i \in 1..Len(Corpus[CurFile].nodes)} :
        n.type = "StringLiteral" /\ n.prop}

\* C27: a literal that is the value of an attribute (or of a property of an
\* object spread into a tag) has no entry among the fixes to present and its
\* key is never recorded, whatever the mode.
C27_AttributeValueSkipped ==
    (pc \in {"prompt", "info"}) =>
        \A n \in PropValues :
            /\ EntriesOf(n) = {}
            /\ createFixKey(Corpus[CurFile].path, n.line, n.column, n.value)
                   \notin rejectedFixes

\* a strict run is at the prompt of the last candidate of a file that holds an
\* attribute value with an ampersand
C27_Witness ==
    /\ strictMode
    /\ pc = "prompt" /\ idx = Len(stringFixes)
    /\ \E n \in PropValues : hasManagedChar(n.value)

\* the tuple a key is built from
KeyTuple(fix) == <<Corpus[CurFile].path, fix.line, fix.column, fix.original>>

KeyOf(fix) == createFixKey(Corpus[CurFile].path, fix.line, fix.column, fix.original)

\* counted from 0, the column of the fix is where its text begins on its line
\* of the file as it was read: the opening quote of a literal, the first
\* character of a markup text
ColumnZeroIndexed(fix) ==
    /\ fix.line >= 1 /\ fix.line <= Len(openLines)
    /\ IF fix.isJsx
       THEN startsWith(substringFrom(openLines[fix.line], fix.column),
                       Head(split(fix.rawValue)))
       ELSE /\ fix.column < Len(openLines[fix.line])
            /\ openLines[fix.line][fix.column + 1] \in {"'", "\""}

\* C28: the candidates of a file that differ in (filePath, line, column,
\* original) have different keys, and the position in a key is the position
\* in the text as it was read, the column counted from 0, whether the
\* candidate comes from the traversal or from a lint finding.
C28_FixKeyUnique ==
    (pc = "prompt") =>
        /\ \A i, j \in 1..Len(stringFixes) :
              (stringFixes[i].type = "fix" /\ stringFixes[j].type = "fix"
               /\ KeyTuple(stringFixes[i]) # KeyTuple(stringFixes[j]))
                  => KeyOf(stringFixes[i]) # KeyOf(stringFixes[j])
        /\ \A i \in 1..Len(stringFixes) :
              stringFixes[i].type = "fix" => ColumnZeroIndexed(stringFixes[i])

\* the files whose content the process has read and holds for a patch that
\* is still to be made or written
ContentsHeld ==
    IF modular THEN {allFixes[i].file : i \in {k \in 1..Len(allFixes) : k >= fi}}
    ELSE IF pc \in {"prompt", "info"} THEN {Files[fi]}
    ELSE {}

\* C29: files are processed strictly one after the other: the content of at
\* most one file is held at a time, and while a file is under review it is
\* that file's.
C29_StrictlySequential ==
    /\ \A f, g \in ContentsHeld : f = g
    /\ (pc \in {"prompt", "info"} => ContentsHeld = {CurFile})

\* the traversal of index.js and lib/ast.js finds a candidate in a file of
\* the project
TraversalFinds ==
    \E i \in 1..Len(Files) :
        /\ ~Corpus[Files[i]].missing /\ ~Corpus[Files[i]].parseFails
        /\ Corpus[Files[i]].size <= MAX_FILE_SIZE
        /\ Traverse(Corpus[Files[i]].path, disk[Files[i]], Corpus[Files[i]].nodes,
                    strictModeRead).fixes # <<>>

\* C30: when the lint analyzer fails (the lint step ends without the findings
\* the files have), detection falls back to the traversal: if the traversal
\* finds a candidate in some file, the review loop is given candidates.
C30_LintFallback ==
    [][(modular /\ pc = "lint" /\ pc' = "loop"
        /\ allFixes' # ReadAll(Files) /\ TraversalFinds)
          => allFixes' # <<>>]_vars

\* the line with the span of the given length at the column, counted from 0,
\* replaced by the text
SpanReplaced(line, column, length, text) ==
    substring(line, 0, column) \o text \o substringFrom(line, column + length)

\* C31: an approved apply of a candidate built from a lint finding replaces
\* the span of the entity's length at the finding's line and column (lint
\* columns count from 1), and nothing else in the file.
C31_LintPatchAtReportedPosition ==
    [][(modular /\ pc = "prompt" /\ lastKey' \in {"y", "return"}
        /\ edits' = edits /\ applied' # applied)
          => LET fix == stringFixes[idx]
             IN  fileLines' = [fileLines EXCEPT ![fix.line] =
                                   SpanReplaced(@, fix.column - 1, Len(fix.original),
                                                fix.escaped)]]_vars

\* the raw line names a style or class-name context
StyleContext(line) ==
    /\ \/ includes(line, <<"s", "t", "y", "l", "e">>)
       \/ includes(line, <<"S", "t", "y", "l", "e">>)
       \/ includes(line, <<"c", "l", "a", "s", "s", "N", "a", "m", "e">>)
       \/ includes(line, <<"c", "s", "s">>)
    /\ includes(line, <<":">>) \/ includes(line, <<"=">>)

\* C32: in normal mode no candidate is presented whose raw source line names
\* a style context and whose text holds a hyphen, a space or a comma.
C32_StyleContextExcluded ==
    (pc = "prompt" /\ ~strictMode) =>
        LET fix == stringFixes[idx]
        IN  ~(/\ fix.line >= 1 /\ fix.line <= Len(openLines)
              /\ StyleContext(openLines[fix.line])
              /\ \/ includes(fix.original, <<"-">>)
                 \/ includes(fix.original, <<" ">>)
                 \/ includes(fix.original, <<",">>))

\* what the patches applied before column c of the line of fix i add to the
\* length of that line: the applied fixes after i in the list lie before it
RECURSIVE ShiftBefore(_, _)
ShiftBefore(i, k) ==
    IF k > Len(stringFixes) THEN 0
    ELSE (IF k \in applied /\ stringFixes[k].line = stringFixes[i].line
             /\ stringFixes[k].column < stringFixes[i].column
          THEN Len(stringFixes[k].escaped) - Len(stringFixes[k].original)
          ELSE 0) + ShiftBefore(i, k + 1)

\* the node a parse of the written file has for the literal of the applied
\* fix i: the escaped text between the same quotes
RescanNode(i) ==
    [type |-> "StringLiteral", value |-> stringFixes[i].escaped,
     line |-> stringFixes[i].line,
     column |-> stringFixes[i].column + ShiftBefore(i, i + 1),
     endLine |-> stringFixes[i].line,
     endColumn |-> stringFixes[i].column + ShiftBefore(i, i + 1)
                   + Len(stringFixes[i].escaped) + 2,
     prop |-> FALSE]

\* index.js has written the file it reviewed last, with literal fixes applied
LiteralsWritten ==
    /\ ~modular /\ pc = "loop" /\ fi > 1
    /\ lastWrite.file = Files[fi - 1] /\ lastWrite.report = "success"
    /\ disk[Files[fi - 1]] = lastWrite.intended
    /\ \E i \in applied : ~stringFixes[i].isJsx

\* C33: once a literal's fix is applied and the file written, the file holds
\* the escaped text at the literal's place, and a scan of the written file,
\* in either mode, neither pushes a candidate for that literal nor records it.
C33_RerunSafety ==
    LiteralsWritten =>
        \A i \in applied : ~stringFixes[i].isJsx =>
            LET f == Files[fi - 1]
                n == RescanNode(i)
            IN  /\ substring(disk[f][n.line], n.column + 1,
                             n.column + 1 + Len(n.value)) = n.value
                /\ \A strict \in BOOLEAN :
                      VisitNode(Corpus[f].path, disk[f], n, strict).kind = "skip"

\* two literals of one line were patched and written, so that the first one
\* of the line has moved
C33_Witness ==
    /\ LiteralsWritten
    /\ \E i \in applied : ~stringFixes[i].isJsx /\ ShiftBefore(i, i + 1) > 0

\* the key of the candidate the prompt presents
PresentedKey ==
    createFixKey(Corpus[CurFile].path, stringFixes[idx].line,
                 stringFixes[idx].column, stringFixes[idx].original)

\* a key at the decision prompt that answers it with the given response
Answered(responses) ==
    /\ pc = "prompt" /\ edits' = edits
    /\ lastKey' \in Keys /\ Response(lastKey') \in responses

\* the loop has moved on to the candidate after the presented one
MovedOn ==
    idx' = NextStop(stringFixes, Corpus[CurFile].path, idx + 1, rejectedFixes')

\* C34: a decline adds exactly one record, keyed by the presented candidate,
\* to the rejection memory and leaves the in-memory lines and the changed
\* flag as they were; an apply leaves the rejection memory as it was; either
\* decision moves on to the next candidate.
C34_DecisionFrame ==
    [][/\ Answered({"n"}) =>
             /\ PresentedKey \notin rejectedFixes
             /\ rejectedFixes' = rejectedFixes \cup {PresentedKey}
             /\ fileLines' = fileLines /\ changed' = changed
       /\ Answered({"y"}) => rejectedFixes' = rejectedFixes
       /\ Answered({"y", "n"}) => MovedOn]_vars

\* C35: within a run, after the load or the clear at its start, no step
\* removes a record from the rejection memory, and every write of the store
\* is a save that holds all the keys the store held before it, so every save
\* of the run is a superset of the earlier ones.
C35_MemoryMonotonic ==
    [][(pc # "start" /\ pc' # "start") =>
          /\ rejectedFixes \subseteq rejectedFixes'
          /\ store' # store =>
                /\ store' = Saved(rejectedFixes')
                /\ store.kind = "ok" => store.keys \subseteq store'.keys]_vars

\* index.js has saved after the second file a memory that holds a key
\* declined in this run next to another one
C35_Witness ==
    /\ ~modular /\ pc = "loop" /\ fi > 2
    /\ store = Saved(rejectedFixes)
    /\ nKeys.now \in store.keys /\ Cardinality(store.keys) >= 2

(***************************************************************************)
(* The run with a user who answers.  The process does nothing but wait at  *)
(* a prompt, so the assumptions are that the user eventually presses a key *)
(* that decides the candidate (apply, decline or quit) or dismisses the    *)
(* information entry, and that the event loop runs the code between two    *)
(* prompts.                                                                *)
(***************************************************************************)
Decision == \E key \in {"y", "return", "n", "q"}, w \in WriteOutcomes : Keypress(key, w)

Dismissal == \E key \in {"x", "ctrlc"}, w \in WriteOutcomes : AnyKey(key, w)

\* a step of the loop over the files: the next file is processed up to its
\* first prompt or to its return, or the run ends after the last one.  It is
\* stated on pc and fi, which every such step changes and no other step
\* taken at pc = "loop" does.
LoopStep ==
    /\ pc = "loop"
    /\ pc' \in {"loop", "prompt", "info", "done"}
    /\ fi' \in {fi, fi + 1}

\* the first run on a project that has no store yet
InitAnswering == Init /\ store.kind = "absent"

\* one run: the steps of Next but the restart
NextAnswering ==
    \/ \E strict \in BOOLEAN, clearHistory \in BOOLEAN : Main(strict, clearHistory)
    \/ \E lintFails \in BOOLEAN : LintAll(lintFails)
    \/ ProcessFileMono
    \/ ProcessFileModular
    \/ Finish
    \/ \E key \in Keys, w \in WriteOutcomes : Keypress(key, w)
    \/ \E key \in {"x", "ctrlc"}, w \in WriteOutcomes : AnyKey(key, w)
    \/ SIGINT
    \/ \E f \in FileIds : ExternalModify(f)

SpecAnswering ==
    /\ InitAnswering /\ [][NextAnswering]_vars
    /\ WF_vars(Decision) /\ WF_vars(Dismissal) /\ WF_<<pc, fi>>(LoopStep)

\* what is left of the review of the run: the candidates after the presented
\* one in this file, and the files after it
Remaining ==
    <<(IF modular THEN Len(allFixes) ELSE Len(Files)) - fi, Len(stringFixes) - idx>>

\* C36: a key that is none of the recognized ones changes nothing; each
\* decision leaves the presented candidate behind for good (the loop goes
\* to a later candidate or leaves the file); and if the user answers every
\* prompt, every review that has started ends with the end of the run.
C36_ReviewTerminates ==
    /\ [][(pc = "prompt" /\ edits' = edits /\ lastKey' \in Keys \ {"ctrlc"}
           /\ Response(lastKey') = "")
             => UNCHANGED <<pc, exitCode, disk, mtime, store, rejectedFixes, fi, idx,
                            fileLines, changed, stringFixes, allFixes, applied>>]_vars
    /\ [][Answered({"y", "n"}) =>
             \/ pc' \in {"prompt", "info"} /\ fi' = fi /\ idx' > idx
             \/ pc' = "loop" /\ fi' = fi + 1]_vars
    /\ (pc \in {"prompt", "info", "loop"}) ~> (pc \in {"done", "exited"})


\* the review of the last file has ended with a decision on the last of its
\* several candidates
C36_Witness ==
    /\ pc = "loop" /\ fi > (IF modular THEN Len(allFixes) ELSE Len(Files))
    /\ Len(stringFixes) >= 2 /\ idx = Len(stringFixes) + 1
    /\ lastKey \in {"y", "return", "n"}

\* a key has ended the review of the presented file: its list is exhausted,
\* the tag guard has returned, or the user has quit
ReviewEnds ==
    /\ pc = "prompt" /\ edits' = edits
    /\ lastKey' \in {"y", "return", "n", "q"}
    /\ pc' \in {"loop", "exited"}

\* no write of this step has failed in the file system
NoWriteFailure ==
    lastWrite' # lastWrite => lastWrite'.readBack = lastWrite'.intended

\* C37: when the review of a file ends with patches applied to its lines in
\* memory, no external-modification conflict detected for it, no corruption
\* signature in the text and no failure of the file system, the file on
\* disk is the patched text.
C37_ApprovedPatchesKept ==
    [][(/\ ReviewEnds
        /\ changed' /\ applied' # {}
        /\ CurFile \notin conflicts' /\ ~checkFileModification(CurFile)
        /\ ~CorruptedEscapes(fileLines')
        /\ NoWriteFailure)
          => disk'[CurFile] = fileLines']_vars

\* the new text is the old one with one occurrence of the original replaced
\* by the escaped text
Spliced(old, new, original, escaped) ==
    \E k \in 0..(Len(old) - Len(original)) :
        /\ matchAt(old, original, k)
        /\ new = SpanReplaced(old, k, Len(original), escaped)

\* C38: when an approved candidate's patch succeeds, what it puts into the
\* text of the file in place of the original is the escaped text the prompt
\* displayed.
C38_ShownIsApplied ==
    [][(pc = "prompt" /\ edits' = edits /\ lastKey' \in {"y", "return"}
        /\ applied' # applied)
          => Spliced(join(fileLines), join(fileLines'),
                     stringFixes[idx].original, stringFixes[idx].escaped)]_vars

\* C39: a key event settles at most one promise of getSingleKeypress, so
\* the loop takes at most one decision from it, and at most one keypress
\* listener of getSingleKeypress is registered at any time, whatever the
\* number of 'c' answers before.
C39_OneKeypressOneDecision ==
    /\ settled <= 1
    /\ Len(keypressListeners) <= 1

\* the text of the file, as it was read, from the start of the node to its end
RawTextOf(n) ==
    substring(join(openLines), LineOffset(openLines, n.line) + n.column,
              LineOffset(openLines, n.endLine) + n.endColumn)

\* the scan has dropped the node of the file under review on the word of one
\* of its already-escaped checks: the line window, the raw-content check, or
\* isAlreadyFixed on the escaped text
DroppedAsEscaped(n) ==
    /\ hasManagedChar(OriginalOf(n))
    /\ ~(n.type # "JSXText" /\ isReactPropValue(n))
    /\ EntriesOf(n) = {}
    /\ \/ isAlreadyEscapedInLineWindow(openLines, n.line, OriginalOf(n)) # "none"
       \/ checkRawFileContent(openLines, n.line, n.value)
       \/ /\ isSafeToEscapeInJsx(OriginalOf(n), openLines[n.line])
          /\ escapeString(OriginalOf(n), strictModeRead).kind # "same"
          /\ isAlreadyFixed(openLines, n.line, n.column, OriginalOf(n),
                            escapeString(OriginalOf(n), strictModeRead).result)

\* C40: a node is dropped as already escaped only if its own text, as the
\* file has it, holds an entity: entities of other strings of the line, or
\* an escaped copy elsewhere in the window, do not drop an unescaped text.
C40_SkipIsAboutCandidate ==
    (~modular /\ pc \in {"prompt", "info"}) =>
        \A n \in {Corpus[CurFile].nodes[i] : i \in 1..Len(Corpus[CurFile].nodes)} :
            DroppedAsEscaped(n) => containsHtmlEntities(RawTextOf(n))

=========================================================================
